---- MODULE Spec2Model ----
(***************************************************************************)
(* Model of the prompt-assembly engine of the Anamalia web viewer          *)
(* (src/webviewer/app.js, class AnamaliaViewer and ProjectSettingsManager).*)
(*                                                                         *)
(* The state is the part of the DOM the engine reads and writes: the value *)
(* of every form element, the checked radio buttons and check boxes, the   *)
(* display style of the sections the handlers show and hide, the text of   *)
(* the status elements, and the content of the prompt-preview modal.       *)
(* Each action is one event handler, with every call it makes.             *)
(***************************************************************************)
EXTENDS Integers, Sequences, FiniteSets, TLC

(***************************************************************************)
(* Generic helpers for strings and sequences.                              *)
(***************************************************************************)

\* Array.prototype.join(sep) on an array of strings.
RECURSIVE Join(_, _)
Join(seq, sep) ==
    IF seq = <<>> THEN ""
    ELSE IF Len(seq) = 1 THEN seq[1]
    ELSE seq[1] \o sep \o Join(Tail(seq), sep)

\* The template-literal rendering of a digit.
DigitChar == <<"0", "1", "2", "3", "4", "5", "6", "7", "8", "9">>

\* The template-literal / toString() rendering of a non-negative integer.
RECURSIVE NumberToString(_)
NumberToString(n) ==
    IF n < 10 THEN DigitChar[n + 1]
    ELSE NumberToString(n \div 10) \o DigitChar[(n % 10) + 1]

\* Math.pow(10, k) for a non-negative integer k.
RECURSIVE Pow10(_)
Pow10(k) == IF k = 0 THEN 1 ELSE 10 * Pow10(k - 1)

(***************************************************************************)
(* The Tenner dimensions T1..T32 and the order of their ids as strings.    *)
(***************************************************************************)

\* loadTennerData: for (let j = 1; j <= 32; j++) tennerKey = `T${j}`.
NumTenners == 32

TennerNumbers == 1..NumTenners

\* `T${j}`
TennerKey(j) == "T" \o NumberToString(j)

TennerKeys == {TennerKey(j) : j \in TennerNumbers}

\* The number j of the key `T${j}`.
TennerNumberOf(key) == CHOOSE j \in TennerNumbers : TennerKey(j) = key

\* The decimal digits of each key after its leading "T": the code units the
\* default comparison of Array.prototype.sort compares.
KeyDigitsTable ==
    [key \in TennerKeys |->
        LET j == TennerNumberOf(key)
        IN  IF j < 10 THEN <<j>> ELSE <<j \div 10, j % 10>>]

KeyDigits(key) == KeyDigitsTable[key]

\* a < b in the order of Array.prototype.sort() without a comparator: the
\* ids are compared as strings, code unit by code unit, a proper prefix
\* first ("T1" < "T10" < "T2").
RECURSIVE DigitsLess(_, _)
DigitsLess(a, b) ==
    IF a = <<>> THEN b # <<>>
    ELSE IF b = <<>> THEN FALSE
    ELSE IF Head(a) # Head(b) THEN Head(a) < Head(b)
    ELSE DigitsLess(Tail(a), Tail(b))

StringLess(a, b) == DigitsLess(KeyDigits(a), KeyDigits(b))

\* Insertion of one id into a sorted array.
RECURSIVE InsertSorted(_, _)
InsertSorted(x, sorted) ==
    IF sorted = <<>> THEN <<x>>
    ELSE IF StringLess(x, Head(sorted)) THEN <<x>> \o sorted
    ELSE <<Head(sorted)>> \o InsertSorted(x, Tail(sorted))

\* selectedTenners.sort(): ascending in StringLess.
RECURSIVE SortTenners(_)
SortTenners(seq) ==
    IF seq = <<>> THEN <<>>
    ELSE InsertSorted(Head(seq), SortTenners(Tail(seq)))

(***************************************************************************)
(* Chunk classification.                                                   *)
(***************************************************************************)

\* A mutant of loadChunkMappings: CHUNK14 repeats the set of CHUNK1.
loadChunkMappingsRepeated ==
    << [id |-> "CHUNK1",  tennerSet |-> <<"T1", "T2", "T4">>],
       [id |-> "CHUNK2",  tennerSet |-> <<"T1", "T3", "T5">>],
       [id |-> "CHUNK3",  tennerSet |-> <<"T6", "T7">>],
       [id |-> "CHUNK4",  tennerSet |-> <<"T1", "T6", "T8">>],
       [id |-> "CHUNK5",  tennerSet |-> <<"T2", "T3", "T6">>],
       [id |-> "CHUNK6",  tennerSet |-> <<"T1", "T2", "T3">>],
       [id |-> "CHUNK7",  tennerSet |-> <<"T4", "T5", "T6">>],
       [id |-> "CHUNK8",  tennerSet |-> <<"T1", "T4", "T7">>],
       [id |-> "CHUNK9",  tennerSet |-> <<"T2", "T5", "T8">>],
       [id |-> "CHUNK10", tennerSet |-> <<"T3", "T6", "T9">>],
       [id |-> "CHUNK11", tennerSet |-> <<"T1", "T5", "T9">>],
       [id |-> "CHUNK12", tennerSet |-> <<"T2", "T4", "T8">>],
       [id |-> "CHUNK13", tennerSet |-> <<"T3", "T7", "T10">>],
       [id |-> "CHUNK14", tennerSet |-> <<"T4", "T2", "T1">>],
       [id |-> "CHUNK15", tennerSet |-> <<"T4", "T6", "T8">>],
       [id |-> "CHUNK16", tennerSet |-> <<"T2", "T3", "T7">>],
       [id |-> "CHUNK17", tennerSet |-> <<"T1", "T3", "T6">>],
       [id |-> "CHUNK18", tennerSet |-> <<"T18">>],
       [id |-> "CHUNK19", tennerSet |-> <<"T19">>],
       [id |-> "CHUNK20", tennerSet |-> <<"T20">>] >>

\* loadChunkMappings: the chunk table in declaration order, which is the
\* order Object.entries enumerates it in.
loadChunkMappings ==
    << [id |-> "CHUNK1",  tennerSet |-> <<"T1", "T2", "T4">>],
       [id |-> "CHUNK2",  tennerSet |-> <<"T1", "T3", "T5">>],
       [id |-> "CHUNK3",  tennerSet |-> <<"T6", "T7">>],
       [id |-> "CHUNK4",  tennerSet |-> <<"T1", "T6", "T8">>],
       [id |-> "CHUNK5",  tennerSet |-> <<"T2", "T3", "T6">>],
       [id |-> "CHUNK6",  tennerSet |-> <<"T1", "T2", "T3">>],
       [id |-> "CHUNK7",  tennerSet |-> <<"T4", "T5", "T6">>],
       [id |-> "CHUNK8",  tennerSet |-> <<"T1", "T4", "T7">>],
       [id |-> "CHUNK9",  tennerSet |-> <<"T2", "T5", "T8">>],
       [id |-> "CHUNK10", tennerSet |-> <<"T3", "T6", "T9">>],
       [id |-> "CHUNK11", tennerSet |-> <<"T1", "T5", "T9">>],
       [id |-> "CHUNK12", tennerSet |-> <<"T2", "T4", "T8">>],
       [id |-> "CHUNK13", tennerSet |-> <<"T3", "T7", "T10">>],
       [id |-> "CHUNK14", tennerSet |-> <<"T1", "T2", "T5">>],
       [id |-> "CHUNK15", tennerSet |-> <<"T4", "T6", "T8">>],
       [id |-> "CHUNK16", tennerSet |-> <<"T2", "T3", "T7">>],
       [id |-> "CHUNK17", tennerSet |-> <<"T1", "T3", "T6">>],
       [id |-> "CHUNK18", tennerSet |-> <<"T18">>],
       [id |-> "CHUNK19", tennerSet |-> <<"T19">>],
       [id |-> "CHUNK20", tennerSet |-> <<"T20">>] >>

\* A mutant of arraysEqual: a prefix match (no length test).
arraysEqualPrefix(a, b) ==
    /\ Len(a) <= Len(b)
    /\ \A i \in 1..Len(a) : a[i] = b[i]

\* arraysEqual(a, b): same length and equal element by element.
arraysEqual(a, b) ==
    /\ Len(a) = Len(b)
    /\ \A i \in 1..Len(a) : a[i] = b[i]

\* A mutant of generateChunkId: the selection is compared as given, unsorted.
generateChunkIdUnsorted(selectedTenners) ==
    IF Len(selectedTenners) = 0 THEN ""
    ELSE
      LET chunkMappings == loadChunkMappings
          matches == {k \in 1..Len(chunkMappings) :
                        arraysEqual(selectedTenners,
                                    SortTenners(chunkMappings[k].tennerSet))}
      IN  IF matches # {}
          THEN chunkMappings[CHOOSE k \in matches : \A m \in matches : k <= m].id
          ELSE "CUSTOM_" \o Join(selectedTenners, "_")

\* generateChunkId(selectedTenners, selectedSpecifics, mode); the last two
\* parameters are not read by the code.  The selection is sorted in place
\* by the first comparison of the loop, so the CUSTOM_ id joins the sorted
\* ids; the first chunk in declaration order that matches is returned.
generateChunkId(selectedTenners) ==
    IF Len(selectedTenners) = 0 THEN ""
    ELSE
      LET chunkMappings == loadChunkMappings
          sorted == SortTenners(selectedTenners)
          matches == {k \in 1..Len(chunkMappings) :
                        arraysEqual(sorted,
                                    SortTenners(chunkMappings[k].tennerSet))}
      IN  IF matches # {}
          THEN chunkMappings[CHOOSE k \in matches : \A m \in matches : k <= m].id
          ELSE "CUSTOM_" \o Join(sorted, "_")

(***************************************************************************)
(* Static tables of the engine.                                            *)
(***************************************************************************)

\* setupCameraTripodSync: this.cameraHeightMapping (canonical heights).
cameraHeightMapping ==
       "camera_001" :> "1.0"
    @@ "camera_002" :> "0.75"
    @@ "camera_003" :> "0.5"
    @@ "camera_004" :> "1.5"
    @@ "camera_005" :> "1.0"
    @@ "camera_006" :> "1.0"
    @@ "camera_007" :> "1.0"
    @@ "camera_008" :> "1.0"
    @@ "camera_009" :> "1.0"
    @@ "camera_010" :> "1.0"

\* getCameraOptions: the ten camera ids.
CameraIds == DOMAIN cameraHeightMapping

\* previewPrompt: const lightingPhrases.
lightingPhrases ==
       "lighting_001" :>
         "Warm, directional late-afternoon sunlight from front-left at 45°, soft fill light from right, subtle floor shadow, gently contrasted stop-motion studio lighting"
    @@ "lighting_002" :>
         "Soft, even overhead lighting with 360° ambient fill, minimal shadows, warm tungsten tone, cozy stop-motion studio atmosphere"
    @@ "lighting_003" :>
         "Sharp, dramatic lighting from front-left at 30°, minimal back fill, defined shadows with high contrast, cinematic stop-motion studio lighting"
    @@ "lighting_004" :>
         "Clean, even overhead lighting with 360° fill, soft even shadows, neutral color temperature, professional stop-motion studio lighting"
    @@ "lighting_005" :>
         "Warm sunset backlight from back-right at 60°, soft warm fill from front, elongated soft shadows, golden hour stop-motion studio lighting"
    @@ "lighting_006" :>
         "Cool moonlight from front-left at 15°, minimal cool fill, soft defined shadows, blue-tinted stop-motion studio lighting"
    @@ "lighting_007" :>
         "Warm candlelight from front-left at 45°, soft warm ambient from below, flickering soft shadows, intimate stop-motion studio lighting"
    @@ "lighting_008" :>
         "Bright daylight from front-left at 30°, strong fill from right, moderate shadows, natural stop-motion studio lighting"
    @@ "lighting_009" :>
         "Diffused overcast lighting from overhead, 360° soft fill, minimal contrast, natural stop-motion studio lighting"
    @@ "lighting_010" :>
         "Warm firelight from front-left at 30°, soft warm ambient from below, dancing soft shadows, cozy stop-motion studio lighting"

\* previewPrompt: const texturePhrases.
texturePhrases ==
       "texture_001" :>
         "Character crafted from finely felted wool with visible fiber texture, hyper-realistic eyes and nose with natural reflections, matte felted surfaces for body, slight specular highlights on eyes and nostrils"
    @@ "texture_002" :>
         "Photographed like a real miniature puppet under macro lens lighting, shallow depth of field, cinematic realism"
    @@ "texture_003" :>
         "Wardrobe items in natural fabrics with visible weave texture, soft drape, minimal specular highlights, matte fabric finish"
    @@ "texture_004" :>
         "Props crafted from aged wood with visible grain texture, weathered patina, warm wood reflections, hand-crafted finish"
    @@ "texture_005" :>
         "Ceramic items with smooth glaze finish, subtle hand-crafted imperfections, controlled specular highlights, authentic pottery feel"
    @@ "texture_006" :>
         "Metal hardware with aged patina, slight oxidation, authentic metallic reflections, weathered finish"
    @@ "texture_007" :>
         "Glass items with clear transparency, subtle light refraction, authentic glass reflections, crystal clarity"
    @@ "texture_008" :>
         "Leather items with natural grain texture, supple surface, authentic leather sheen, hand-tooled finish"
    @@ "texture_009" :>
         "Paper items with visible fiber texture, slight age yellowing, matte finish, authentic paper feel"
    @@ "texture_010" :>
         "Stone items with natural grain texture, mineral veining, authentic stone reflections, natural finish"

\* previewPrompt: const filmStockPhrases.
filmStockPhrases ==
       "kodak_portra_400" :>
         "Shot on Kodak Portra 400 film with warm color palette, natural skin tones, and fine grain"
    @@ "kodak_ultramax_400" :>
         "Shot on Kodak Ultramax 400 film with vibrant colors, high contrast, and medium grain"
    @@ "fuji_superia_400" :>
         "Shot on Fuji Superia 400 film with cool color cast, sharp detail, and fine grain"
    @@ "ilford_hp5_400" :>
         "Shot on Ilford HP5 400 black and white film with rich contrast, fine grain, and classic monochrome aesthetic"
    @@ "kodak_gold_200" :>
         "Shot on Kodak Gold 200 film with warm, saturated colors and fine grain"
    @@ "fuji_velvia_50" :>
         "Shot on Fuji Velvia 50 slide film with ultra-saturated colors, high contrast, and extremely fine grain"
    @@ "kodak_tmax_100" :>
         "Shot on Kodak T-Max 100 black and white film with ultra-fine grain, high sharpness, and smooth tonal gradations"
    @@ "agfa_vista_200" :>
         "Shot on Agfa Vista 200 film with natural color reproduction and fine grain"
    @@ "lomography_color_400" :>
         "Shot on Lomography Color 400 film with vintage color palette, increased grain, and retro aesthetic"
    @@ "cinestill_800t" :>
         "Shot on Cinestill 800T film with tungsten color balance, warm tones, and cinematic grain"

\* previewPrompt: const cameraDescriptions.  Each sentence holds the token
\* {HEIGHT} once; it is kept split at the token, << text before, text after >>.
cameraDescriptions ==
       "camera_001" :>
         << "Captured on a miniature stop-motion stage using a fixed camera at 35mm lens, tripod height ",
            ", angled 0° downward, positioned at stage center" >>
    @@ "camera_002" :>
         << "Captured on a miniature stop-motion stage using a fixed camera at 35mm lens, tripod height ",
            ", angled 5° downward, positioned at stage center" >>
    @@ "camera_003" :>
         << "Captured on a miniature stop-motion stage using a fixed camera at 35mm lens, tripod height ",
            ", angled 10° upward, positioned at stage center" >>
    @@ "camera_004" :>
         << "Captured on a miniature stop-motion stage using a fixed camera at 35mm lens, tripod height ",
            ", angled 5° downward, positioned at stage center" >>
    @@ "camera_005" :>
         << "Captured on a miniature stop-motion stage using a fixed camera at 35mm lens, tripod height ",
            ", angled 0° downward, positioned at stage center, camera rotated 45° left" >>
    @@ "camera_006" :>
         << "Captured on a miniature stop-motion stage using a fixed camera at 35mm lens, tripod height ",
            ", angled 0° downward, positioned at stage center, camera rotated 45° right" >>
    @@ "camera_007" :>
         << "Captured on a miniature stop-motion stage using a fixed camera at 35mm lens, tripod height ",
            ", angled 0° downward, positioned at stage center, camera rotated 90° left" >>
    @@ "camera_008" :>
         << "Captured on a miniature stop-motion stage using a fixed camera at 35mm lens, tripod height ",
            ", angled 0° downward, positioned at stage center, camera rotated 135° left" >>
    @@ "camera_009" :>
         << "Captured on a miniature stop-motion stage using a fixed camera at 50mm lens, tripod height ",
            ", angled 0° downward, positioned at stage center" >>
    @@ "camera_010" :>
         << "Captured on a miniature stop-motion stage using a fixed camera at 24mm lens, tripod height ",
            ", angled 0° downward, positioned at stage center" >>

\* getColorPalettes: the colour names of the palettes, in order.
getColorPalettes ==
       "anamalia_late_summer" :>
         << "Backdrop Cream", "Warm Beige Wash", "Felt Gray Base",
            "Felt Gray Highlight", "Felt Gray Shadow", "Horn Ivory",
            "Eye Amber", "Iris Deep Ring", "Natural Sclera", "Nose Slate",
            "Golden Hour Key", "Soft Shadow Brown" >>
    @@ "classic_anamalia" :>
         << "ochre", "cream", "soft pink", "muted blue" >>

\* getSingleColor: const colorMap (the name of each colour).
colorMap ==
       "ochre" :> "ochre"
    @@ "cream" :> "cream"
    @@ "soft-pink" :> "soft pink"
    @@ "muted-blue" :> "muted blue"

\* The ids the prompt renders with String.prototype.replace('_', ' '),
\* each split at its underscores.
UnderscoreParts ==
       "all" :> << "all" >>
    @@ "none" :> << "none" >>
    @@ "piazza_v2" :> << "piazza", "v2" >>
    @@ "library_v1" :> << "library", "v1" >>
    @@ "greenscreen_v1" :> << "greenscreen", "v1" >>
    @@ "rooftop garden" :> << "rooftop garden" >>
    @@ "arms_open_welcome" :> << "arms", "open", "welcome" >>
    @@ "seated_contemplative" :> << "seated", "contemplative" >>
    @@ "custom pose" :> << "custom pose" >>
    @@ "leaping over a puddle" :> << "leaping over a puddle" >>
    @@ "three_quarter_left" :> << "three", "quarter", "left" >>
    @@ "front" :> << "front" >>
    @@ "custom orientation" :> << "custom orientation" >>
    @@ "facing the window" :> << "facing the window" >>
    @@ "lighting_001" :> << "lighting", "001" >>
    @@ "lighting_003" :> << "lighting", "003" >>
    @@ "lighting_soft_box" :> << "lighting", "soft", "box" >>
    @@ "stop_motion" :> << "stop", "motion" >>
    @@ "claymation" :> << "claymation" >>
    @@ "puppet_animation" :> << "puppet", "animation" >>
    @@ "kodak_portra_400" :> << "kodak", "portra", "400" >>
    @@ "ilford_hp5_400" :> << "ilford", "hp5", "400" >>
    @@ "cinestill_800t" :> << "cinestill", "800t" >>
    @@ "kodak_ektar_100" :> << "kodak", "ektar", "100" >>
    @@ "fuji_velvia_50" :> << "fuji", "velvia", "50" >>
    @@ "kodak_tmax_100" :> << "kodak", "tmax", "100" >>
    @@ "fuji_superia_400" :> << "fuji", "superia", "400" >>
    @@ "sunhat" :> << "sunhat" >>
    @@ "cowboy_hat" :> << "cowboy", "hat" >>
    @@ "book" :> << "book" >>
    @@ "tea_cup" :> << "tea", "cup" >>
    @@ "musical_instrument" :> << "musical", "instrument" >>

\* A mutant of ReplaceUnderscore: every underscore replaced.
ReplaceAllUnderscores(id) == Join(UnderscoreParts[id], " ")

\* id.replace('_', ' '): a string pattern replaces the first occurrence only.
ReplaceUnderscore(id) ==
    LET parts == UnderscoreParts[id]
    IN  IF Len(parts) = 1 THEN parts[1]
        ELSE parts[1] \o " " \o Join(Tail(parts), "_")

(***************************************************************************)
(* The Tenner dataset (new_tenner_options.json as loadTennerData stores    *)
(* it): ten options per dimension.                                         *)
(***************************************************************************)

\* loadTennerData: rows 1..10 of the file are the options o0..o9.
NumOptions == 10

\* The descriptor cells of the dataset the model loads.  A missing or
\* empty cell is stored as '' (optionRow[headerKey] || '').
Descriptor(tennerKey, optionIndex) ==
    IF tennerKey = "T1" /\ optionIndex = 0 THEN "rhino named Ruby"
    ELSE IF tennerKey = "T1" /\ optionIndex = 1 THEN "mouse named Maxine"
    ELSE IF tennerKey = "T2" /\ optionIndex = 1 THEN ""
    ELSE "descriptor " \o NumberToString(optionIndex) \o " of " \o tennerKey

\* loadTennerData, success: categories[T1..T32], each the array of its ten
\* option records.
\* optionIndex.toString().padStart(2, '0')
PadStart2(optionIndex) ==
    IF optionIndex < 10 THEN "0" \o NumberToString(optionIndex)
    ELSE NumberToString(optionIndex)

\* `${tennerKey.toLowerCase()}_${optionIndex.toString().padStart(2, '0')}`
OptionId(tennerKey, optionIndex) ==
    "t" \o NumberToString(TennerNumberOf(tennerKey)) \o "_"
        \o PadStart2(optionIndex)

LoadedTennerData ==
    [categories |->
        [k \in TennerKeys |->
            [i \in 1..NumOptions |->
                [option_index |-> i - 1,
                 descriptor |-> Descriptor(k, i - 1),
                 id |-> OptionId(k, i - 1)]]]]

\* loadTennerData, failure (fetch rejected, response not ok, body not
\* parsed): { categories: {}, summary: { total_tenners: 32 } }.
EmptyTennerData == [categories |-> <<>>]

\* updateTennerSpecificOptions: `${selectedTenner}-${option.option_index}: ${option.descriptor}`
OptionText(selectedTenner, option) ==
    selectedTenner \o "-" \o NumberToString(option.option_index) \o ": "
        \o option.descriptor

\* The text of every option of the loaded dataset.
AllOptionTexts ==
    [k \in TennerKeys |->
        [i \in 1..NumOptions |->
            OptionText(k, LoadedTennerData.categories[k][i])]]

\* The capture (.+) of /^(T\d+)-(\d+):\s*(.+)$/ on an option text made of
\* this descriptor: the descriptor itself, and for an empty descriptor the
\* blank after the colon (\s* gives it back to .+).  The descriptors of the
\* model hold no line break and start with no blank.
CapturedDescriptor(descriptor) ==
    IF descriptor = "" THEN " " ELSE descriptor

\* specific.match(/^(T\d+)-(\d+):\s*(.+)$/) on the value of a specific
\* option dropdown: the option text is read back into its three groups.
\* Every value the dropdown can hold was built by OptionText.
MatchSpecific(specific) ==
    LET hits == {<<k, i>> \in TennerKeys \X (1..NumOptions) :
                    AllOptionTexts[k][i] = specific}
        hit == CHOOSE h \in hits : TRUE
    IN  IF hits = {} THEN [matched |-> FALSE, tennerKey |-> "", optionIndex |-> 0,
                           descriptor |-> ""]
        ELSE [matched |-> TRUE, tennerKey |-> hit[1], optionIndex |-> hit[2] - 1,
              descriptor |-> CapturedDescriptor(Descriptor(hit[1], hit[2] - 1))]

(***************************************************************************)
(* The state.                                                              *)
(***************************************************************************)

VARIABLES
    value,          \* [element id -> string]: .value of the selects and inputs
    radio,          \* [radio group name -> value of its checked button]
    checked,        \* [check box id -> BOOLEAN]
    disabled,       \* [element id -> BOOLEAN]: .disabled
    display,        \* [section id -> "block" | "none"]: whether it is shown
    textContent,    \* [element id -> string]: text of the status elements
    specificOptions,\* [1..3 -> sequence of the option values of tenner-i-specific]
    optionDisabled, \* [1..3 -> set of the disabled option values of tenner-i]
    colorChecked,   \* the indices of the checked input[name="selected-colors"]
    tennerData,     \* this.tennerData
    modal,          \* the prompt-preview modal: shown, textarea, Tenner info
    advisory,       \* the film/camera warning and suggestion elements
    projects,       \* projectManager.projects: project name -> settings
    remembered,     \* history: an earlier preview, with the selection it was made from
    initStep        \* the position of init(): "loadTennerData" while it awaits the
                    \* load, "done" once the listeners are set up

vars == << value, radio, checked, disabled, display, textContent,
           specificOptions, optionDisabled, colorChecked, tennerData, modal,
           advisory, projects, remembered, initStep >>

Slots == 1..3

\* ['tenner-1', 'tenner-2', 'tenner-3']
TennerSelectId(i) == "tenner-" \o NumberToString(i)

\* `${tennerId}-specific`
SpecificSelectId(i) == TennerSelectId(i) \o "-specific"

\* `${tennerId}-option`
OptionDivId(i) == TennerSelectId(i) \o "-option"

\* resetToDefaults: const defaultValues.
defaultValues ==
       "output-width" :> "1024"
    @@ "output-height" :> "1024"
    @@ "output-aspect-ratio" :> "16:9"
    @@ "output-quality" :> "high"
    @@ "output-format" :> "png"
    @@ "output-color-space" :> "sRGB"
    @@ "tenner-1" :> ""
    @@ "tenner-2" :> ""
    @@ "tenner-3" :> ""
    @@ "tenner-pose" :> "arms_open_welcome"
    @@ "tenner-orientation" :> "three_quarter_left"
    @@ "assemble-texture" :> "texture_001"
    @@ "assemble-material" :> "all"
    @@ "assemble-color-palette" :> "anamalia_late_summer"
    @@ "assemble-color-single" :> "all"
    @@ "assemble-composition" :> "all"
    @@ "assemble-tone" :> "all"
    @@ "assemble-scene" :> "piazza_v2"
    @@ "assemble-wardrobe" :> "none"
    @@ "assemble-props" :> "none"
    @@ "assemble-lighting" :> "lighting_001"
    @@ "assemble-film-type" :> "stop_motion"
    @@ "assemble-film-stock" :> "kodak_portra_400"
    @@ "assemble-camera" :> "camera_001"

\* The form as the page presents it: every field of defaultValues at its
\* default, the text inputs and the specific option dropdowns empty.
InitialValues ==
    defaultValues
    @@ "tenner-1-specific" :> ""
    @@ "tenner-2-specific" :> ""
    @@ "tenner-3-specific" :> ""
    @@ "custom-pose-text" :> ""
    @@ "custom-orientation-text" :> ""
    @@ "assemble-scene-manual" :> ""
    @@ "assemble-tripod-height" :> "1.0"

\* ProjectSettingsManager.getDefaultSettings: the sections loadProject applies
\* to elements of the model.
getDefaultSettings ==
    [outputParameters |->
        [width |-> "1024", height |-> "1024", aspectRatio |-> "16:9",
         quality |-> "high", format |-> "png", colorSpace |-> "sRGB"],
     styleGuide |->
        [texture |-> "texture_001", material |-> "all",
         paletteMode |-> "standard", colorPalette |-> "anamalia_late_summer",
         colorUsageMode |-> "all", selectedColors |-> {},
         composition |-> "all", tone |-> "all"],
     colorProfiles |->
        [paletteMode |-> "standard", colorPalette |-> "anamalia_late_summer",
         colorUsageMode |-> "all", selectedColors |-> {},
         singleColor |-> "default"],
     sceneGuide |->
        [scene |-> "piazza_v2", manualScene |-> "", tapeMarkings |-> FALSE],
     wardrobe |-> [wardrobe |-> "none", props |-> "none"],
     moodLighting |->
        [lighting |-> "lighting_001", filmType |-> "stop_motion",
         filmStock |-> "kodak_portra_400", camera |-> "camera_001",
         tripodHeight |-> "1.0"]]

(***************************************************************************)
(* The document as one record, so that the handlers an event runs one      *)
(* after the other can be composed: each handler maps a document to the    *)
(* document it leaves.                                                     *)
(***************************************************************************)

DOM ==
    [value |-> value, radio |-> radio, checked |-> checked,
     disabled |-> disabled, display |-> display, textContent |-> textContent,
     specificOptions |-> specificOptions, optionDisabled |-> optionDisabled,
     colorChecked |-> colorChecked, tennerData |-> tennerData,
     modal |-> modal, advisory |-> advisory, projects |-> projects]

\* The document d becomes the next state.
Commit(d) ==
    /\ value' = d.value
    /\ radio' = d.radio
    /\ checked' = d.checked
    /\ disabled' = d.disabled
    /\ display' = d.display
    /\ textContent' = d.textContent
    /\ specificOptions' = d.specificOptions
    /\ optionDisabled' = d.optionDisabled
    /\ colorChecked' = d.colorChecked
    /\ tennerData' = d.tennerData
    /\ modal' = d.modal
    /\ advisory' = d.advisory
    /\ projects' = d.projects

\* element.value = v
SetValue(d, id, v) == [d EXCEPT !.value[id] = v]

\* [tenner1, tenner2, tenner3].filter(t => t !== '' && t !== 'none')
RECURSIVE SelectedFrom(_, _)
SelectedFrom(d, i) ==
    IF i > 3 THEN <<>>
    ELSE LET t == d.value[TennerSelectId(i)]
         IN  (IF t # "" /\ t # "none" THEN <<t>> ELSE <<>>)
                 \o SelectedFrom(d, i + 1)

SelectedTenners(d) == SelectedFrom(d, 1)

\* [specific1, specific2, specific3].filter(s => s !== '')
RECURSIVE SpecificsFrom(_, _)
SpecificsFrom(d, i) ==
    IF i > 3 THEN <<>>
    ELSE LET s == d.value[SpecificSelectId(i)]
         IN  (IF s # "" THEN <<s>> ELSE <<>>) \o SpecificsFrom(d, i + 1)

SelectedSpecifics(d) == SpecificsFrom(d, 1)

\* updatePoseSelection: the pose section is shown iff T1 is selected in one
\* of the three Tenner dropdowns.
updatePoseSelection(d) ==
    LET isT1Selected == \E i \in Slots : d.value[TennerSelectId(i)] = "T1"
    IN  [d EXCEPT !.display["pose-selection"] =
                      IF isT1Selected THEN "block" ELSE "none"]

\* updateCustomPoseVisibility
updateCustomPoseVisibility(d) ==
    [d EXCEPT !.display["custom-pose-input"] =
                  IF d.value["tenner-pose"] = "custom" THEN "block" ELSE "none"]

\* updateTennerStatus, batch branch: const permutations, one literal per
\* number of selected Tenners.
BatchPermutations(k) ==
    IF k = 1 THEN 10 ELSE IF k = 2 THEN 100 ELSE 1000

\* updateTennerStatus, batch branch: the text of the status line for
\* k = 1, 2, 3 selected Tenners.
BatchStatusText(k) ==
    IF k = 1
    THEN "1 Tenner selected: " \o NumberToString(BatchPermutations(k))
             \o " permutations (10¹)"
    ELSE IF k = 2
    THEN "2 Tenners selected: " \o NumberToString(BatchPermutations(k))
             \o " permutations (10²)"
    ELSE "3 Tenners selected: " \o NumberToString(BatchPermutations(k))
             \o " permutations (10³)"

\* updateTennerStatus, single branch: the text of the status line.
SingleStatusText(selectedTenners, selectedSpecifics) ==
    IF Len(selectedSpecifics) = 0
    THEN "Single mode: " \o NumberToString(Len(selectedTenners))
             \o " Tenner(s) selected - choose specific options"
    ELSE "Single mode: " \o NumberToString(Len(selectedSpecifics))
             \o " specific option(s) selected"

\* updateTennerStatus: the status line and the chunk id display, then
\* updatePoseSelection and updateCustomPoseVisibility.
updateTennerStatus(d) ==
    LET mode == d.radio["tenner-mode"]
        selectedTenners == SelectedTenners(d)
        selectedSpecifics == SelectedSpecifics(d)
        shown ==
            IF Len(selectedTenners) = 0
            THEN [d EXCEPT
                    !.textContent["tenner-status"] =
                        "Select Tenners to see combination count",
                    !.display["chunk-id-display"] = "none"]
            ELSE [d EXCEPT
                    !.textContent["tenner-status"] =
                        IF mode = "single"
                        THEN SingleStatusText(selectedTenners, selectedSpecifics)
                        ELSE BatchStatusText(Len(selectedTenners)),
                    !.textContent["chunk-id-value"] =
                        generateChunkId(selectedTenners),
                    !.display["chunk-id-display"] = "block"]
    IN  updateCustomPoseVisibility(updatePoseSelection(shown))

\* A mutant of updateTennerOptions: every option is left enabled.
updateTennerOptionsAllEnabled(d) ==
    [d EXCEPT !.optionDisabled = [i \in Slots |-> {}]]

\* updateTennerOptions: in each dropdown an option other than '', 'none'
\* and the dropdown's own value is disabled iff it is selected somewhere.
updateTennerOptions(d) ==
    LET selectedTenners == SelectedTenners(d)
        selectedSet == {selectedTenners[n] : n \in 1..Len(selectedTenners)}
    IN  [d EXCEPT !.optionDisabled =
            [i \in Slots |-> selectedSet \ {d.value[TennerSelectId(i)]}]]

\* updateTennerSpecificOptions, one dropdown: rebuilt (which empties its
\* value) and filled from the dataset when a Tenner is selected in single
\* mode; hidden and emptied otherwise.
RefillSpecific(d, i) ==
    LET selectedTenner == d.value[TennerSelectId(i)]
        categories == d.tennerData.categories
        options == IF selectedTenner \in DOMAIN categories
                   THEN categories[selectedTenner] ELSE <<>>
    IN  IF selectedTenner # "" /\ selectedTenner # "none"
        THEN [d EXCEPT
                !.display[OptionDivId(i)] = "block",
                !.value[SpecificSelectId(i)] = "",
                !.specificOptions[i] =
                    [n \in 1..Len(options) |->
                        OptionText(selectedTenner, options[n])]]
        ELSE [d EXCEPT
                !.display[OptionDivId(i)] = "none",
                !.value[SpecificSelectId(i)] = "",
                !.specificOptions[i] = <<>>]

\* updateTennerSpecificOptions: in batch mode the three option sections
\* are hidden and nothing else changes; in single mode every dropdown is
\* rebuilt.
updateTennerSpecificOptions(d) ==
    IF d.radio["tenner-mode"] = "batch"
    THEN [d EXCEPT !.display =
            [s \in DOMAIN d.display |->
                IF s \in {OptionDivId(i) : i \in Slots}
                THEN "none" ELSE d.display[s]]]
    ELSE RefillSpecific(RefillSpecific(RefillSpecific(d, 1), 2), 3)

\* updateTennerMode
updateTennerMode(d) ==
    updateTennerSpecificOptions(updateTennerOptions(updateTennerStatus(d)))

(***************************************************************************)
(* Camera and tripod height, scene and tape markings.                      *)
(***************************************************************************)

\* syncTripodHeightToCamera(cameraValue): a mapped camera sets the tripod
\* height to its canonical value and disables the dropdown; any other
\* value enables it.
syncTripodHeightToCamera(d, cameraValue) ==
    IF cameraValue \in DOMAIN cameraHeightMapping
    THEN [d EXCEPT
            !.value["assemble-tripod-height"] = cameraHeightMapping[cameraValue],
            !.disabled["assemble-tripod-height"] = TRUE]
    ELSE [d EXCEPT !.disabled["assemble-tripod-height"] = FALSE]

\* updateTapeMarkingsVisibility
updateTapeMarkingsVisibility(d) ==
    [d EXCEPT !.display["tape-markings-section"] =
        IF d.value["assemble-scene"] = "greenscreen_v1" THEN "block" ELSE "none"]

(***************************************************************************)
(* Output parameters: aspect ratio <-> width and height.                   *)
(***************************************************************************)

\* The numeric options of the width and of the height dropdown
\* (getFieldInfo, 'output-width' and 'output-height').
DimensionOptions == << 512, 768, 1024, 1280, 1536, 2048 >>

\* syncAspectRatioToDimensions: const ratios, in declaration order, each
\* as << name, numerator, denominator >>.
ratios ==
    << << "1:1", 1, 1 >>, << "4:3", 4, 3 >>, << "16:9", 16, 9 >>,
       << "3:2", 3, 2 >>, << "21:9", 21, 9 >>, << "9:16", 9, 16 >> >>

\* parseInt of the value of a width or height dropdown: 0 stands for NaN.
ParseDimension(v) ==
    LET hits == {n \in 1..Len(DimensionOptions) :
                    NumberToString(DimensionOptions[n]) = v}
    IN  IF hits = {} THEN 0 ELSE DimensionOptions[CHOOSE n \in hits : TRUE]

\* aspectRatio.split(':').map(Number)
SplitRatio(aspectRatio) ==
    LET n == CHOOSE n \in 1..Len(ratios) : ratios[n][1] = aspectRatio
    IN  << ratios[n][2], ratios[n][3] >>

Abs(n) == IF n < 0 THEN -n ELSE n

\* |width / height - num / den| as the fraction << numerator, denominator >>.
RatioDiff(width, height, num, den) ==
    << Abs(width * den - num * height), height * den >>

\* a < b for fractions with positive denominators.
FracLess(a, b) == a[1] * b[2] < b[1] * a[2]

\* The loop of syncAspectRatioToDimensions: the first entry of ratios of
\* least difference (a later one replaces it only when strictly nearer).
ClosestRatioIndex(width, height) ==
    CHOOSE n \in 1..Len(ratios) :
        LET dn == RatioDiff(width, height, ratios[n][2], ratios[n][3])
        IN  /\ \A m \in 1..Len(ratios) :
                  ~FracLess(RatioDiff(width, height, ratios[m][2], ratios[m][3]), dn)
            /\ \A m \in 1..(n - 1) :
                  FracLess(dn, RatioDiff(width, height, ratios[m][2], ratios[m][3]))

\* A mutant of syncAspectRatioToDimensions: the nearest ratio is kept
\* whatever its difference.
syncAspectRatioNoCustom(d) ==
    LET width == ParseDimension(d.value["output-width"])
        height == ParseDimension(d.value["output-height"])
    IN  IF width = 0 \/ height = 0 THEN d
        ELSE [d EXCEPT !.value["output-aspect-ratio"] =
                            ratios[ClosestRatioIndex(width, height)][1]]

\* syncAspectRatioToDimensions: nothing when width or height is not a
\* number; else the nearest ratio, or 'custom' when minDiff > 0.05.
syncAspectRatioToDimensions(d) ==
    LET width == ParseDimension(d.value["output-width"])
        height == ParseDimension(d.value["output-height"])
        n == ClosestRatioIndex(width, height)
        minDiff == RatioDiff(width, height, ratios[n][2], ratios[n][3])
    IN  IF width = 0 \/ height = 0 THEN d
        ELSE [d EXCEPT !.value["output-aspect-ratio"] =
                IF FracLess(<< 5, 100 >>, minDiff) THEN "custom"
                ELSE ratios[n][1]]

\* Math.round(a / b) for a >= 0, b > 0: halves round up.
RoundDiv(a, b) == (2 * a + b) \div (2 * b)

\* heightOptions.reduce((prev, curr) => |curr - t| < |prev - t| ? curr : prev):
\* the first option of least distance to the target.
ClosestHeight(target) ==
    LET n == CHOOSE n \in 1..Len(DimensionOptions) :
                /\ \A m \in 1..Len(DimensionOptions) :
                      Abs(DimensionOptions[n] - target)
                          <= Abs(DimensionOptions[m] - target)
                /\ \A m \in 1..(n - 1) :
                      Abs(DimensionOptions[n] - target)
                          < Abs(DimensionOptions[m] - target)
    IN  DimensionOptions[n]

\* A mutant of syncDimensionsToAspectRatio: the height is computed as
\* width * ratioW / ratioH.
syncDimensionsInverted(d) ==
    LET aspectRatio == d.value["output-aspect-ratio"]
        parsed == ParseDimension(d.value["output-width"])
        currentWidth == IF parsed = 0 THEN 1024 ELSE parsed
        r == SplitRatio(aspectRatio)
    IN  IF aspectRatio = "custom" THEN d
        ELSE [d EXCEPT !.value["output-height"] =
                NumberToString(ClosestHeight(RoundDiv(currentWidth * r[1], r[2])))]

\* syncDimensionsToAspectRatio: nothing for 'custom'; else the height
\* option closest to round(currentWidth * ratioH / ratioW), the width
\* read as 1024 when it is not a number.
syncDimensionsToAspectRatio(d) ==
    LET aspectRatio == d.value["output-aspect-ratio"]
        parsed == ParseDimension(d.value["output-width"])
        currentWidth == IF parsed = 0 THEN 1024 ELSE parsed
        r == SplitRatio(aspectRatio)
    IN  IF aspectRatio = "custom" THEN d
        ELSE [d EXCEPT !.value["output-height"] =
                NumberToString(ClosestHeight(RoundDiv(currentWidth * r[2], r[1])))]

(***************************************************************************)
(* Reset and project settings.                                             *)
(***************************************************************************)

\* resetToDefaults: every field of defaultValues gets its default value,
\* then updateTapeMarkingsVisibility.  No other handler is called.
resetToDefaults(d) ==
    updateTapeMarkingsVisibility(
        [d EXCEPT !.value =
            [id \in DOMAIN d.value |->
                IF id \in DOMAIN defaultValues THEN defaultValues[id]
                ELSE d.value[id]]])

\* The selected colours a collect function stores: the checked boxes when
\* the usage mode is 'select', none otherwise.
CollectSelectedColors(d) ==
    IF d.radio["color-usage-mode"] = "select" THEN d.colorChecked ELSE {}

\* `x || fallback` on a string.
OrElse(x, fallback) == IF x = "" THEN fallback ELSE x

\* collectAllSettings: the six sections, read from the form.
collectAllSettings(d) ==
    [outputParameters |->
        [width |-> d.value["output-width"],
         height |-> d.value["output-height"],
         aspectRatio |-> d.value["output-aspect-ratio"],
         quality |-> d.value["output-quality"],
         format |-> d.value["output-format"],
         colorSpace |-> d.value["output-color-space"]],
     styleGuide |->
        [texture |-> d.value["assemble-texture"],
         material |-> d.value["assemble-material"],
         paletteMode |-> d.radio["palette-mode"],
         colorPalette |->
            OrElse(d.value["assemble-color-palette"], "anamalia_late_summer"),
         colorUsageMode |-> d.radio["color-usage-mode"],
         selectedColors |-> CollectSelectedColors(d),
         composition |-> d.value["assemble-composition"],
         tone |-> d.value["assemble-tone"]],
     colorProfiles |->
        [paletteMode |-> d.radio["palette-mode"],
         colorPalette |->
            OrElse(d.value["assemble-color-palette"], "anamalia_late_summer"),
         colorUsageMode |-> d.radio["color-usage-mode"],
         selectedColors |-> CollectSelectedColors(d),
         singleColor |-> OrElse(d.value["assemble-color-single"], "default")],
     sceneGuide |->
        [scene |-> d.value["assemble-scene"],
         manualScene |-> d.value["assemble-scene-manual"],
         tapeMarkings |-> d.checked["assemble-tape-markings"]],
     wardrobe |->
        [wardrobe |-> d.value["assemble-wardrobe"],
         props |-> d.value["assemble-props"]],
     moodLighting |->
        [lighting |-> d.value["assemble-lighting"],
         filmType |-> d.value["assemble-film-type"],
         filmStock |-> d.value["assemble-film-stock"],
         camera |-> d.value["assemble-camera"],
         tripodHeight |-> d.value["assemble-tripod-height"]]]

\* `if (setting) element.value = setting`
ApplyValue(d, id, setting) ==
    IF setting # "" THEN SetValue(d, id, setting) ELSE d

\* applyOutputParametersSettings
applyOutputParametersSettings(d, settings) ==
    LET d1 == ApplyValue(d, "output-width", settings.width)
        d2 == ApplyValue(d1, "output-height", settings.height)
        d3 == ApplyValue(d2, "output-aspect-ratio", settings.aspectRatio)
        d4 == ApplyValue(d3, "output-quality", settings.quality)
        d5 == ApplyValue(d4, "output-format", settings.format)
    IN  ApplyValue(d5, "output-color-space", settings.colorSpace)

\* The palette part shared by applyStyleGuideSettings and
\* applyColorProfileSettings: the two radio groups, the palette dropdown,
\* and a check mark on every stored colour.
ApplyPalette(d, settings) ==
    LET d1 == IF settings.paletteMode # ""
              THEN [d EXCEPT !.radio["palette-mode"] = settings.paletteMode]
              ELSE d
        d2 == ApplyValue(d1, "assemble-color-palette", settings.colorPalette)
        d3 == IF settings.colorUsageMode # ""
              THEN [d2 EXCEPT !.radio["color-usage-mode"] = settings.colorUsageMode]
              ELSE d2
    IN  [d3 EXCEPT !.colorChecked = @ \cup settings.selectedColors]

\* applyStyleGuideSettings
applyStyleGuideSettings(d, settings) ==
    LET d1 == ApplyValue(d, "assemble-texture", settings.texture)
        d2 == ApplyValue(d1, "assemble-material", settings.material)
        d3 == ApplyValue(d2, "assemble-composition", settings.composition)
        d4 == ApplyValue(d3, "assemble-tone", settings.tone)
    IN  ApplyPalette(d4, settings)

\* applyColorProfileSettings
applyColorProfileSettings(d, settings) ==
    ApplyValue(ApplyPalette(d, settings), "assemble-color-single",
               settings.singleColor)

\* applySceneGuideSettings
applySceneGuideSettings(d, settings) ==
    LET d1 == ApplyValue(d, "assemble-scene", settings.scene)
        d2 == ApplyValue(d1, "assemble-scene-manual", settings.manualScene)
    IN  [d2 EXCEPT !.checked["assemble-tape-markings"] = settings.tapeMarkings]

\* applyWardrobeSettings
applyWardrobeSettings(d, settings) ==
    ApplyValue(ApplyValue(d, "assemble-wardrobe", settings.wardrobe),
               "assemble-props", settings.props)

\* applyMoodLightingSettings: camera and tripod height are both written
\* from the stored settings; no handler is called.
applyMoodLightingSettings(d, settings) ==
    LET d1 == ApplyValue(d, "assemble-lighting", settings.lighting)
        d2 == ApplyValue(d1, "assemble-film-type", settings.filmType)
        d3 == ApplyValue(d2, "assemble-film-stock", settings.filmStock)
        d4 == ApplyValue(d3, "assemble-camera", settings.camera)
    IN  ApplyValue(d4, "assemble-tripod-height", settings.tripodHeight)

\* loadProject: the six sections of the stored settings are applied.
loadProject(d) ==
    LET settings == d.projects
        d1 == applyOutputParametersSettings(d, settings.outputParameters)
        d2 == applyStyleGuideSettings(d1, settings.styleGuide)
        d3 == applyColorProfileSettings(d2, settings.colorProfiles)
        d4 == applySceneGuideSettings(d3, settings.sceneGuide)
        d5 == applyWardrobeSettings(d4, settings.wardrobe)
    IN  applyMoodLightingSettings(d5, settings.moodLighting)

\* saveSectionToProject(sectionName): the section of the current project
\* is replaced by what collectAllSettings reads from the form.
saveSectionToProject(d, mappedSectionName) ==
    LET settings == collectAllSettings(d)
    IN  [d EXCEPT !.projects =
            [sec \in DOMAIN d.projects |->
                IF sec = mappedSectionName THEN settings[sec]
                ELSE d.projects[sec]]]

(***************************************************************************)
(* previewPrompt.  The prompt is kept as the sequence of the pieces the    *)
(* code appends, each with the step of the pipeline that appended it; the  *)
(* text of the textarea is their concatenation.                            *)
(***************************************************************************)

\* getFilterValue(elementId, defaultValue)
getFilterValue(d, elementId, defaultValue) ==
    LET v == d.value[elementId]
    IN  IF v = "default" THEN defaultValue
        ELSE IF v = "" THEN defaultValue ELSE v

\* String.prototype.trim on the texts of the model: a text is blank or
\* carries no blank at either end.
Trim(text) == IF text \in {"", " ", "   "} THEN "" ELSE text

\* String.prototype.toUpperCase on the values of output-format.
ToUpperCase(text) ==
    IF text = "png" THEN "PNG"
    ELSE IF text = "jpeg" THEN "JPEG"
    ELSE IF text = "webp" THEN "WEBP"
    ELSE IF text = "tiff" THEN "TIFF"
    ELSE text

\* element.offsetParent !== null for tenner-pose and tenner-orientation:
\* both sit in #pose-selection, and are laid out iff it is displayed.
PoseFieldsVisible(d) == d.display["pose-selection"] = "block"

Fragment(step, text) == [step |-> step, text |-> text]

\* The steps of previewPrompt, in the order of its statements.
PipelineSteps ==
    << "subject", "pose", "orientation", "scene", "lighting", "filmType",
       "texture", "palette", "filmStock", "wardrobe", "props", "camera",
       "tenner", "output", "suffix" >>

\* The fixed suffix.
StyleSuffix == ", 3D stop-motion style, high quality, detailed"

\* let pose: the pose id, or the custom text, read only while the pose
\* fields are visible.
PoseOf(d) ==
    IF ~PoseFieldsVisible(d) THEN ""
    ELSE LET tennerPose == d.value["tenner-pose"]
         IN  IF tennerPose = "custom"
             THEN OrElse(Trim(d.value["custom-pose-text"]), "custom pose")
             ELSE tennerPose

\* let orientation: as pose.
OrientationOf(d) ==
    IF ~PoseFieldsVisible(d) THEN ""
    ELSE LET tennerOrientation == d.value["tenner-orientation"]
         IN  IF tennerOrientation = "custom"
             THEN OrElse(Trim(d.value["custom-orientation-text"]),
                         "custom orientation")
             ELSE tennerOrientation

\* characterName: the descriptor of the first specific option when it is
\* an option of T1, 'A character' otherwise.
SubjectFragment(d) ==
    LET tenner1Specific == d.value["tenner-1-specific"]
        match == MatchSpecific(tenner1Specific)
    IN  << Fragment("subject",
              IF tenner1Specific # "" /\ match.matched /\ match.tennerKey = "T1"
              THEN match.descriptor ELSE "A character") >>

PoseFragment(d) ==
    LET pose == PoseOf(d)
    IN  IF pose = "" THEN <<>>
        ELSE IF /\ PoseFieldsVisible(d)
                /\ d.value["tenner-pose"] = "custom"
                /\ Trim(d.value["custom-pose-text"]) # ""
        THEN << Fragment("pose", " " \o pose) >>
        ELSE << Fragment("pose", " in a " \o ReplaceUnderscore(pose) \o " pose") >>

OrientationFragment(d) ==
    LET orientation == OrientationOf(d)
    IN  IF orientation = "" THEN <<>>
        ELSE IF /\ PoseFieldsVisible(d)
                /\ d.value["tenner-orientation"] = "custom"
                /\ Trim(d.value["custom-orientation-text"]) # ""
        THEN << Fragment("orientation", ", " \o orientation) >>
        ELSE << Fragment("orientation",
                    ", " \o ReplaceUnderscore(orientation) \o " orientation") >>

GreenScreenText ==
    " captured on a miniature stop-motion stage with chroma-key green backdrop. Floor: vibrant green (#00FF00) matte surface. Wall: vibrant green (#00FF00) matte surface. 90-degree junction visible. Character maintains felted wool texture with natural contact shadows falling on green floor"

TapeMarkingsText ==
    ". White T-mark tape at center stage position. Yellow spike tape strips marking character positions. Subtle reference marks at stage corners. Tape markings appear as physical elements on green floor"

\* const scene = sceneManual || getFilterValue('assemble-scene', 'piazza_v2')
SceneOf(d) ==
    OrElse(Trim(d.value["assemble-scene-manual"]),
           getFilterValue(d, "assemble-scene", "piazza_v2"))

\* A mutant of SceneFragment: the tape-markings sentence follows the flag
\* alone.
SceneFragmentTapeAlways(d) ==
    LET scene == SceneOf(d)
    IN  (IF scene = "all" THEN <<>>
         ELSE IF scene = "greenscreen_v1"
         THEN << Fragment("scene", GreenScreenText) >>
         ELSE << Fragment("scene", " at a " \o ReplaceUnderscore(scene)) >>)
        \o (IF d.checked["assemble-tape-markings"]
            THEN << Fragment("scene", TapeMarkingsText) >> ELSE <<>>)

SceneFragment(d) ==
    LET scene == SceneOf(d)
    IN  IF scene = "all" THEN <<>>
        ELSE IF scene = "greenscreen_v1"
        THEN << Fragment("scene", GreenScreenText) >>
             \o (IF d.checked["assemble-tape-markings"]
                 THEN << Fragment("scene", TapeMarkingsText) >> ELSE <<>>)
        ELSE << Fragment("scene", " at a " \o ReplaceUnderscore(scene)) >>

LightingFragment(d) ==
    LET lighting == getFilterValue(d, "assemble-lighting", "lighting_001")
    IN  IF lighting = "all" THEN <<>>
        ELSE IF lighting \in DOMAIN lightingPhrases
        THEN << Fragment("lighting", " with " \o lightingPhrases[lighting]) >>
        ELSE << Fragment("lighting",
                    " with " \o ReplaceUnderscore(lighting) \o " lighting") >>

FilmTypeFragment(d) ==
    LET filmType == getFilterValue(d, "assemble-film-type", "stop_motion")
    IN  IF filmType = "all" THEN <<>>
        ELSE << Fragment("filmType",
                    " in " \o ReplaceUnderscore(filmType) \o " style") >>

TextureFragment(d) ==
    LET texture == getFilterValue(d, "assemble-texture", "texture_001")
    IN  IF texture \in DOMAIN texturePhrases
        THEN << Fragment("texture", ". " \o texturePhrases[texture]) >>
        ELSE <<>>

\* The palette colours at the checked indices, in index order
\* (.map(index => palette.colors[index]).filter(Boolean)).
RECURSIVE ColorsFrom(_, _, _)
ColorsFrom(colors, checkedSet, i) ==
    IF i > Len(colors) THEN <<>>
    ELSE (IF (i - 1) \in checkedSet THEN << colors[i] >> ELSE <<>>)
             \o ColorsFrom(colors, checkedSet, i + 1)

\* getStandardPaletteColors: the names of the colours.
getStandardPaletteColors(d) ==
    LET selectedPalette == d.value["assemble-color-palette"]
    IN  IF selectedPalette \notin DOMAIN getColorPalettes THEN <<>>
        ELSE IF d.radio["color-usage-mode"] = "all"
        THEN getColorPalettes[selectedPalette]
        ELSE ColorsFrom(getColorPalettes[selectedPalette], d.colorChecked, 1)

\* getCustomPaletteColors
getCustomPaletteColors(d) == <<>>

\* getSingleColor
getSingleColor(d) ==
    LET selectedColor == d.value["assemble-color-single"]
    IN  IF selectedColor = "all" THEN <<>>
        ELSE IF selectedColor \in DOMAIN colorMap
        THEN << colorMap[selectedColor] >> ELSE <<>>

\* getCurrentColorPalette
getCurrentColorPalette(d) ==
    LET mode == d.radio["palette-mode"]
    IN  IF mode = "standard" THEN getStandardPaletteColors(d)
        ELSE IF mode = "custom" THEN getCustomPaletteColors(d)
        ELSE IF mode = "single" THEN getSingleColor(d)
        ELSE <<>>

PaletteFragment(d) ==
    LET colorPalette == getCurrentColorPalette(d)
    IN  IF Len(colorPalette) > 0
        THEN << Fragment("palette",
                    " with " \o Join(colorPalette, ", ") \o " color palette") >>
        ELSE <<>>

FilmStockFragment(d) ==
    LET filmStock == getFilterValue(d, "assemble-film-stock", "kodak_portra_400")
    IN  IF filmStock = "all" THEN <<>>
        ELSE IF filmStock \in DOMAIN filmStockPhrases
        THEN << Fragment("filmStock", ". " \o filmStockPhrases[filmStock]) >>
        ELSE << Fragment("filmStock",
                    ". Shot on " \o ReplaceUnderscore(filmStock) \o " film") >>

WardrobeFragment(d) ==
    LET wardrobe == getFilterValue(d, "assemble-wardrobe", "none")
    IN  IF wardrobe = "none" THEN <<>>
        ELSE << Fragment("wardrobe",
                    " wearing a " \o ReplaceUnderscore(wardrobe)) >>

PropsFragment(d) ==
    LET props == getFilterValue(d, "assemble-props", "none")
    IN  IF props = "none" THEN <<>>
        ELSE << Fragment("props", " holding a " \o ReplaceUnderscore(props)) >>

\* A mutant of TripodHeightOf: the height is read from the form field.
TripodHeightOfField(d, camera) == d.value["assemble-tripod-height"]

\* const tripodHeight = this.cameraHeightMapping[camera] || '1.0'
TripodHeightOf(d, camera) ==
    IF camera \in DOMAIN cameraHeightMapping
    THEN cameraHeightMapping[camera] ELSE "1.0"

\* A mutant of HeightText: always the plural.
HeightTextPlural(tripodHeight) == tripodHeight \o " meters"

\* tripodHeight === '1.0' ? '1 meter' : `${tripodHeight} meters`
HeightText(tripodHeight) ==
    IF tripodHeight = "1.0" THEN "1 meter" ELSE tripodHeight \o " meters"

CameraFragment(d) ==
    LET camera == getFilterValue(d, "assemble-camera", "camera_001")
        tripodHeight == TripodHeightOf(d, camera)
    IN  IF camera \in DOMAIN cameraDescriptions
        THEN << Fragment("camera",
                    ". " \o cameraDescriptions[camera][1]
                         \o HeightText(tripodHeight)
                         \o cameraDescriptions[camera][2]) >>
        ELSE <<>>

\* selectedSpecifics.forEach: one piece per specific option that parses
\* and has a descriptor.
RECURSIVE DescriptorFragments(_)
DescriptorFragments(selectedSpecifics) ==
    IF selectedSpecifics = <<>> THEN <<>>
    ELSE LET match == MatchSpecific(Head(selectedSpecifics))
         IN  (IF match.matched /\ match.descriptor # ""
              THEN << Fragment("tenner", " " \o match.descriptor) >>
              ELSE <<>>)
                 \o DescriptorFragments(Tail(selectedSpecifics))

TennerFragments(d) ==
    IF Len(SelectedTenners(d)) > 0 /\ d.radio["tenner-mode"] = "single"
    THEN DescriptorFragments(SelectedSpecifics(d))
    ELSE <<>>

\* A mutant of permutationCount.
TenTimes(k) == 10 * k

\* Math.pow(10, selectedTenners.length)
permutationCount(k) == Pow10(k)

\* let tennerInfo; '' stands for null.
TennerInfo(d) ==
    LET selectedTenners == SelectedTenners(d)
        selectedSpecifics == SelectedSpecifics(d)
    IN  IF Len(selectedTenners) = 0 THEN ""
        ELSE IF d.radio["tenner-mode"] = "single"
        THEN IF Len(selectedSpecifics) > 0
             THEN "Single Mode: " \o Join(selectedTenners, ", ") \o " - "
                      \o Join(selectedSpecifics, ", ")
             ELSE "Single Mode: " \o Join(selectedTenners, ", ")
                      \o " (specific options not selected)"
        ELSE "Batch Mode: " \o Join(selectedTenners, ", ") \o " ("
                 \o NumberToString(permutationCount(Len(selectedTenners)))
                 \o " permutations)"

\* Math.abs(actualRatio - expectedRatio) < 0.01; false when width or
\* height is not a number.
AspectRatioMatches(outputWidth, outputHeight, outputAspectRatio) ==
    LET width == ParseDimension(outputWidth)
        height == ParseDimension(outputHeight)
        r == SplitRatio(outputAspectRatio)
    IN  /\ width # 0
        /\ height # 0
        /\ FracLess(RatioDiff(width, height, r[1], r[2]), << 1, 100 >>)

\* The output parameters: resolution, aspect ratio, quality, format and
\* colour space, in this order.
OutputFragments(d) ==
    LET outputWidth == getFilterValue(d, "output-width", "1024")
        outputHeight == getFilterValue(d, "output-height", "1024")
        outputAspectRatio == getFilterValue(d, "output-aspect-ratio", "16:9")
        outputQuality == getFilterValue(d, "output-quality", "high")
        outputFormat == getFilterValue(d, "output-format", "png")
        outputColorSpace == getFilterValue(d, "output-color-space", "sRGB")
    IN  (IF outputWidth # "custom" /\ outputHeight # "custom"
         THEN << Fragment("output",
                    ", " \o outputWidth \o "x" \o outputHeight \o " pixels") >>
         ELSE <<>>)
        \o (IF /\ outputAspectRatio # "custom"
               /\ AspectRatioMatches(outputWidth, outputHeight, outputAspectRatio)
            THEN << Fragment("output",
                       ", " \o outputAspectRatio \o " aspect ratio") >>
            ELSE <<>>)
        \o (IF outputQuality # "standard"
            THEN << Fragment("output", ", " \o outputQuality \o " quality") >>
            ELSE <<>>)
        \o (IF outputFormat # "png"
            THEN << Fragment("output",
                       ", " \o ToUpperCase(outputFormat) \o " format") >>
            ELSE <<>>)
        \o (IF outputColorSpace # "sRGB"
            THEN << Fragment("output",
                       ", " \o outputColorSpace \o " color space") >>
            ELSE <<>>)

\* A mutant of PromptFragments: the camera description is appended before
\* the scene.
PromptFragmentsCameraFirst(d) ==
    SubjectFragment(d) \o PoseFragment(d) \o OrientationFragment(d)
        \o CameraFragment(d) \o SceneFragment(d) \o LightingFragment(d)
        \o FilmTypeFragment(d) \o TextureFragment(d) \o PaletteFragment(d)
        \o FilmStockFragment(d) \o WardrobeFragment(d) \o PropsFragment(d)
        \o TennerFragments(d) \o OutputFragments(d)
        \o << Fragment("suffix", StyleSuffix) >>

\* A mutant of PromptFragments: a reported film stock / camera conflict
\* blocks the composition after the subject.
PromptFragmentsBlocking(d) ==
    IF d.advisory.warning # <<>> THEN SubjectFragment(d)
    ELSE SubjectFragment(d) \o PoseFragment(d) \o OrientationFragment(d)
            \o SceneFragment(d) \o LightingFragment(d) \o FilmTypeFragment(d)
            \o TextureFragment(d) \o PaletteFragment(d) \o FilmStockFragment(d)
            \o WardrobeFragment(d) \o PropsFragment(d) \o CameraFragment(d)
            \o TennerFragments(d) \o OutputFragments(d)
            \o << Fragment("suffix", StyleSuffix) >>

\* previewPrompt: the pieces of `prompt`, in the order they are appended.
PromptFragments(d) ==
    SubjectFragment(d) \o PoseFragment(d) \o OrientationFragment(d)
        \o SceneFragment(d) \o LightingFragment(d) \o FilmTypeFragment(d)
        \o TextureFragment(d) \o PaletteFragment(d) \o FilmStockFragment(d)
        \o WardrobeFragment(d) \o PropsFragment(d) \o CameraFragment(d)
        \o TennerFragments(d) \o OutputFragments(d)
        \o << Fragment("suffix", StyleSuffix) >>

\* The texts of the pieces.
Texts(fragments) == [n \in 1..Len(fragments) |-> fragments[n].text]

\* A mutant of CeilDiv: Math.floor.
FloorDiv(a, b) == a \div b

\* Math.ceil(characters / 4)
CeilDiv(a, b) == (a + b - 1) \div b

\* The characters /\s/ matches, among those a prompt can hold.
IsWhitespace(char) == char \in {" ", "\t", "\n", "\r"}

\* prompt.trim().split(/\s+/).filter(word => word.length > 0).length: the
\* pieces left are the maximal runs of non-whitespace characters, one for
\* each position where such a run starts.
WordCount(prompt) ==
    Cardinality({n \in 1..Len(prompt) :
                    /\ ~IsWhitespace(SubSeq(prompt, n, n))
                    /\ n = 1 \/ IsWhitespace(SubSeq(prompt, n - 1, n - 1))})

\* showPromptPreviewModal(prompt, tennerInfo).  tennerInfo of the modal is
\* the content of tenner-preview-content as far as it is on display: the
\* element keeps its last content while tenner-preview-info is hidden, and
\* gets new content whenever it is shown.
showPromptPreviewModal(d, fragments, tennerInfo) ==
    LET prompt == Join(Texts(fragments), "")
        characters == Len(prompt)
    IN  [d EXCEPT !.modal =
            [show |-> TRUE,
             fragments |-> fragments,
             text |-> prompt,
             tennerInfo |->
                 IF tennerInfo # ""
                 THEN "<p><strong>Mode:</strong> " \o tennerInfo \o "</p>"
                 ELSE "",
             wordCount |-> "Words: " \o NumberToString(WordCount(prompt)),
             charCount |-> "Characters: " \o NumberToString(characters),
             tokenEstimate |->
                 "~Tokens: " \o NumberToString(CeilDiv(characters, 4))]]

\* previewPrompt
previewPrompt(d) ==
    showPromptPreviewModal(d, PromptFragments(d), TennerInfo(d))

\* hidePromptPreviewModal: the statistics keep their text.
hidePromptPreviewModal(d) ==
    [d EXCEPT !.modal.show = FALSE,
              !.modal.fragments = <<>>,
              !.modal.text = "",
              !.modal.tennerInfo = ""]

\* The modal before the first preview.
HiddenModal ==
    [show |-> FALSE, fragments |-> <<>>, text |-> "", tennerInfo |-> "",
     wordCount |-> "", charCount |-> "", tokenEstimate |-> ""]

(***************************************************************************)
(* Film stock / camera advisories.                                         *)
(***************************************************************************)

\* getCameraDescriptions: the ten descriptions, character by character.
getCameraDescriptions ==
       "camera_001" :>
        <<
           "C", "a", "p", "t", "u", "r", "e", "d", " ", "o", "n", " ", "a",
           " ", "m", "i", "n", "i", "a", "t", "u", "r", "e", " ", "s", "t",
           "o", "p", "-", "m", "o", "t", "i", "o", "n", " ", "s", "t", "a",
           "g", "e", " ", "u", "s", "i", "n", "g", " ", "a", " ", "f", "i",
           "x", "e", "d", " ", "c", "a", "m", "e", "r", "a", " ", "a", "t",
           " ", "3", "5", "m", "m", " ", "l", "e", "n", "s", ",", " ", "t",
           "r", "i", "p", "o", "d", " ", "h", "e", "i", "g", "h", "t", " ",
           "1", " ", "m", "e", "t", "e", "r", ",", " ", "a", "n", "g", "l",
           "e", "d", " ", "0", "°", " ", "d", "o", "w", "n", "w", "a", "r",
           "d", ",", " ", "p", "o", "s", "i", "t", "i", "o", "n", "e", "d",
           " ", "a", "t", " ", "s", "t", "a", "g", "e", " ", "c", "e", "n",
           "t", "e", "r" >>
    @@ "camera_002" :>
        <<
           "C", "a", "p", "t", "u", "r", "e", "d", " ", "o", "n", " ", "a",
           " ", "m", "i", "n", "i", "a", "t", "u", "r", "e", " ", "s", "t",
           "o", "p", "-", "m", "o", "t", "i", "o", "n", " ", "s", "t", "a",
           "g", "e", " ", "u", "s", "i", "n", "g", " ", "a", " ", "f", "i",
           "x", "e", "d", " ", "c", "a", "m", "e", "r", "a", " ", "a", "t",
           " ", "3", "5", "m", "m", " ", "l", "e", "n", "s", ",", " ", "t",
           "r", "i", "p", "o", "d", " ", "h", "e", "i", "g", "h", "t", " ",
           "0", ".", "7", "5", " ", "m", "e", "t", "e", "r", "s", ",", " ",
           "a", "n", "g", "l", "e", "d", " ", "5", "°", " ", "d", "o", "w",
           "n", "w", "a", "r", "d", ",", " ", "p", "o", "s", "i", "t", "i",
           "o", "n", "e", "d", " ", "a", "t", " ", "s", "t", "a", "g", "e",
           " ", "c", "e", "n", "t", "e", "r" >>
    @@ "camera_003" :>
        <<
           "C", "a", "p", "t", "u", "r", "e", "d", " ", "o", "n", " ", "a",
           " ", "m", "i", "n", "i", "a", "t", "u", "r", "e", " ", "s", "t",
           "o", "p", "-", "m", "o", "t", "i", "o", "n", " ", "s", "t", "a",
           "g", "e", " ", "u", "s", "i", "n", "g", " ", "a", " ", "f", "i",
           "x", "e", "d", " ", "c", "a", "m", "e", "r", "a", " ", "a", "t",
           " ", "3", "5", "m", "m", " ", "l", "e", "n", "s", ",", " ", "t",
           "r", "i", "p", "o", "d", " ", "h", "e", "i", "g", "h", "t", " ",
           "0", ".", "5", " ", "m", "e", "t", "e", "r", "s", ",", " ", "a",
           "n", "g", "l", "e", "d", " ", "1", "0", "°", " ", "u", "p", "w",
           "a", "r", "d", ",", " ", "p", "o", "s", "i", "t", "i", "o", "n",
           "e", "d", " ", "a", "t", " ", "s", "t", "a", "g", "e", " ", "c",
           "e", "n", "t", "e", "r" >>
    @@ "camera_004" :>
        <<
           "C", "a", "p", "t", "u", "r", "e", "d", " ", "o", "n", " ", "a",
           " ", "m", "i", "n", "i", "a", "t", "u", "r", "e", " ", "s", "t",
           "o", "p", "-", "m", "o", "t", "i", "o", "n", " ", "s", "t", "a",
           "g", "e", " ", "u", "s", "i", "n", "g", " ", "a", " ", "f", "i",
           "x", "e", "d", " ", "c", "a", "m", "e", "r", "a", " ", "a", "t",
           " ", "3", "5", "m", "m", " ", "l", "e", "n", "s", ",", " ", "t",
           "r", "i", "p", "o", "d", " ", "h", "e", "i", "g", "h", "t", " ",
           "1", ".", "5", " ", "m", "e", "t", "e", "r", "s", ",", " ", "a",
           "n", "g", "l", "e", "d", " ", "5", "°", " ", "d", "o", "w", "n",
           "w", "a", "r", "d", ",", " ", "p", "o", "s", "i", "t", "i", "o",
           "n", "e", "d", " ", "a", "t", " ", "s", "t", "a", "g", "e", " ",
           "c", "e", "n", "t", "e", "r" >>
    @@ "camera_005" :>
        <<
           "C", "a", "p", "t", "u", "r", "e", "d", " ", "o", "n", " ", "a",
           " ", "m", "i", "n", "i", "a", "t", "u", "r", "e", " ", "s", "t",
           "o", "p", "-", "m", "o", "t", "i", "o", "n", " ", "s", "t", "a",
           "g", "e", " ", "u", "s", "i", "n", "g", " ", "a", " ", "f", "i",
           "x", "e", "d", " ", "c", "a", "m", "e", "r", "a", " ", "a", "t",
           " ", "3", "5", "m", "m", " ", "l", "e", "n", "s", ",", " ", "t",
           "r", "i", "p", "o", "d", " ", "h", "e", "i", "g", "h", "t", " ",
           "1", " ", "m", "e", "t", "e", "r", ",", " ", "a", "n", "g", "l",
           "e", "d", " ", "0", "°", " ", "d", "o", "w", "n", "w", "a", "r",
           "d", ",", " ", "p", "o", "s", "i", "t", "i", "o", "n", "e", "d",
           " ", "a", "t", " ", "s", "t", "a", "g", "e", " ", "c", "e", "n",
           "t", "e", "r", ",", " ", "c", "a", "m", "e", "r", "a", " ", "r",
           "o", "t", "a", "t", "e", "d", " ", "4", "5", "°", " ", "l", "e",
           "f", "t" >>
    @@ "camera_006" :>
        <<
           "C", "a", "p", "t", "u", "r", "e", "d", " ", "o", "n", " ", "a",
           " ", "m", "i", "n", "i", "a", "t", "u", "r", "e", " ", "s", "t",
           "o", "p", "-", "m", "o", "t", "i", "o", "n", " ", "s", "t", "a",
           "g", "e", " ", "u", "s", "i", "n", "g", " ", "a", " ", "f", "i",
           "x", "e", "d", " ", "c", "a", "m", "e", "r", "a", " ", "a", "t",
           " ", "3", "5", "m", "m", " ", "l", "e", "n", "s", ",", " ", "t",
           "r", "i", "p", "o", "d", " ", "h", "e", "i", "g", "h", "t", " ",
           "1", " ", "m", "e", "t", "e", "r", ",", " ", "a", "n", "g", "l",
           "e", "d", " ", "0", "°", " ", "d", "o", "w", "n", "w", "a", "r",
           "d", ",", " ", "p", "o", "s", "i", "t", "i", "o", "n", "e", "d",
           " ", "a", "t", " ", "s", "t", "a", "g", "e", " ", "c", "e", "n",
           "t", "e", "r", ",", " ", "c", "a", "m", "e", "r", "a", " ", "r",
           "o", "t", "a", "t", "e", "d", " ", "4", "5", "°", " ", "r", "i",
           "g", "h", "t" >>
    @@ "camera_007" :>
        <<
           "C", "a", "p", "t", "u", "r", "e", "d", " ", "o", "n", " ", "a",
           " ", "m", "i", "n", "i", "a", "t", "u", "r", "e", " ", "s", "t",
           "o", "p", "-", "m", "o", "t", "i", "o", "n", " ", "s", "t", "a",
           "g", "e", " ", "u", "s", "i", "n", "g", " ", "a", " ", "f", "i",
           "x", "e", "d", " ", "c", "a", "m", "e", "r", "a", " ", "a", "t",
           " ", "3", "5", "m", "m", " ", "l", "e", "n", "s", ",", " ", "t",
           "r", "i", "p", "o", "d", " ", "h", "e", "i", "g", "h", "t", " ",
           "1", " ", "m", "e", "t", "e", "r", ",", " ", "a", "n", "g", "l",
           "e", "d", " ", "0", "°", " ", "d", "o", "w", "n", "w", "a", "r",
           "d", ",", " ", "p", "o", "s", "i", "t", "i", "o", "n", "e", "d",
           " ", "a", "t", " ", "s", "t", "a", "g", "e", " ", "c", "e", "n",
           "t", "e", "r", ",", " ", "c", "a", "m", "e", "r", "a", " ", "r",
           "o", "t", "a", "t", "e", "d", " ", "9", "0", "°", " ", "l", "e",
           "f", "t" >>
    @@ "camera_008" :>
        <<
           "C", "a", "p", "t", "u", "r", "e", "d", " ", "o", "n", " ", "a",
           " ", "m", "i", "n", "i", "a", "t", "u", "r", "e", " ", "s", "t",
           "o", "p", "-", "m", "o", "t", "i", "o", "n", " ", "s", "t", "a",
           "g", "e", " ", "u", "s", "i", "n", "g", " ", "a", " ", "f", "i",
           "x", "e", "d", " ", "c", "a", "m", "e", "r", "a", " ", "a", "t",
           " ", "3", "5", "m", "m", " ", "l", "e", "n", "s", ",", " ", "t",
           "r", "i", "p", "o", "d", " ", "h", "e", "i", "g", "h", "t", " ",
           "1", " ", "m", "e", "t", "e", "r", ",", " ", "a", "n", "g", "l",
           "e", "d", " ", "0", "°", " ", "d", "o", "w", "n", "w", "a", "r",
           "d", ",", " ", "p", "o", "s", "i", "t", "i", "o", "n", "e", "d",
           " ", "a", "t", " ", "s", "t", "a", "g", "e", " ", "c", "e", "n",
           "t", "e", "r", ",", " ", "c", "a", "m", "e", "r", "a", " ", "r",
           "o", "t", "a", "t", "e", "d", " ", "1", "3", "5", "°", " ", "l",
           "e", "f", "t" >>
    @@ "camera_009" :>
        <<
           "C", "a", "p", "t", "u", "r", "e", "d", " ", "o", "n", " ", "a",
           " ", "m", "i", "n", "i", "a", "t", "u", "r", "e", " ", "s", "t",
           "o", "p", "-", "m", "o", "t", "i", "o", "n", " ", "s", "t", "a",
           "g", "e", " ", "u", "s", "i", "n", "g", " ", "a", " ", "f", "i",
           "x", "e", "d", " ", "c", "a", "m", "e", "r", "a", " ", "a", "t",
           " ", "5", "0", "m", "m", " ", "l", "e", "n", "s", ",", " ", "t",
           "r", "i", "p", "o", "d", " ", "h", "e", "i", "g", "h", "t", " ",
           "1", " ", "m", "e", "t", "e", "r", ",", " ", "a", "n", "g", "l",
           "e", "d", " ", "0", "°", " ", "d", "o", "w", "n", "w", "a", "r",
           "d", ",", " ", "p", "o", "s", "i", "t", "i", "o", "n", "e", "d",
           " ", "a", "t", " ", "s", "t", "a", "g", "e", " ", "c", "e", "n",
           "t", "e", "r" >>
    @@ "camera_010" :>
        <<
           "C", "a", "p", "t", "u", "r", "e", "d", " ", "o", "n", " ", "a",
           " ", "m", "i", "n", "i", "a", "t", "u", "r", "e", " ", "s", "t",
           "o", "p", "-", "m", "o", "t", "i", "o", "n", " ", "s", "t", "a",
           "g", "e", " ", "u", "s", "i", "n", "g", " ", "a", " ", "f", "i",
           "x", "e", "d", " ", "c", "a", "m", "e", "r", "a", " ", "a", "t",
           " ", "2", "4", "m", "m", " ", "l", "e", "n", "s", ",", " ", "t",
           "r", "i", "p", "o", "d", " ", "h", "e", "i", "g", "h", "t", " ",
           "1", " ", "m", "e", "t", "e", "r", ",", " ", "a", "n", "g", "l",
           "e", "d", " ", "0", "°", " ", "d", "o", "w", "n", "w", "a", "r",
           "d", ",", " ", "p", "o", "s", "i", "t", "i", "o", "n", "e", "d",
           " ", "a", "t", " ", "s", "t", "a", "g", "e", " ", "c", "e", "n",
           "t", "e", "r" >>

\* String.prototype.includes on strings held character by character.
Includes(text, pattern) ==
    \E start \in 1..(Len(text) - Len(pattern) + 1) :
        SubSeq(text, start, start + Len(pattern) - 1) = pattern

\* cameraDesc.includes('color') || cameraDesc.includes('warm') ||
\* cameraDesc.includes('saturated'), cameraDesc being '' for an unknown
\* camera.
DescriptionMentionsColor(camera) ==
    LET cameraDesc == IF camera \in DOMAIN getCameraDescriptions
                      THEN getCameraDescriptions[camera] ELSE <<>>
    IN  \/ Includes(cameraDesc, << "c", "o", "l", "o", "r" >>)
        \/ Includes(cameraDesc, << "w", "a", "r", "m" >>)
        \/ Includes(cameraDesc,
                    << "s", "a", "t", "u", "r", "a", "t", "e", "d" >>)

Conflict(type, message, severity) ==
    [type |-> type, message |-> message, severity |-> severity]

\* A mutant of getFilmCameraConflicts: the slow-film advisory is given for
\* every camera.
getFilmCameraConflictsAnyCamera(filmStock, camera) ==
    IF filmStock \in {"fuji_velvia_50", "kodak_tmax_100"}
    THEN << Conflict("speed_lighting_mismatch",
               "Slow film (" \o ReplaceUnderscore(filmStock)
                   \o ") may not perform well with dramatic lighting angles",
               "info") >>
    ELSE <<>>

\* getFilmCameraConflicts(filmStock, camera)
getFilmCameraConflicts(filmStock, camera) ==
    (IF /\ filmStock \in {"ilford_hp5_400", "kodak_tmax_100"}
        /\ DescriptionMentionsColor(camera)
     THEN << Conflict("bw_color_mismatch",
                "Black & white film (" \o ReplaceUnderscore(filmStock)
                    \o ") selected with camera that may emphasize color characteristics",
                "warning") >>
     ELSE <<>>)
    \o (IF /\ filmStock \in {"fuji_velvia_50", "kodak_tmax_100"}
           /\ camera \in {"camera_003", "camera_004"}
        THEN << Conflict("speed_lighting_mismatch",
                   "Slow film (" \o ReplaceUnderscore(filmStock)
                       \o ") may not perform well with dramatic lighting angles",
                   "info") >>
        ELSE <<>>)
    \o (IF /\ filmStock \in {"cinestill_800t"}
           /\ camera \in {"camera_001", "camera_002"}
        THEN << Conflict("speed_lighting_mismatch",
                   "Fast film (" \o ReplaceUnderscore(filmStock)
                       \o ") may be overkill for standard lighting conditions",
                   "info") >>
        ELSE <<>>)
    \o (IF /\ filmStock \in {"cinestill_800t"}
           /\ camera \in {"camera_003", "camera_004"}
        THEN << Conflict("color_temp_mismatch",
                   "Tungsten-balanced film (" \o ReplaceUnderscore(filmStock)
                       \o ") works best with warm lighting conditions",
                   "warning") >>
        ELSE <<>>)

\* validateFilmCameraCompatibility: nothing when either field is empty or
\* 'all'; else the warning element is replaced by one listing the
\* conflicts, or removed when there are none.
validateFilmCameraCompatibility(d) ==
    LET filmStock == d.value["assemble-film-stock"]
        camera == d.value["assemble-camera"]
    IN  IF filmStock = "" \/ camera = "" \/ filmStock = "all" \/ camera = "all"
        THEN d
        ELSE [d EXCEPT !.advisory.warning =
                           getFilmCameraConflicts(filmStock, camera)]

\* getCompatibleCameras(filmStock)
getCompatibleCameras(filmStock) ==
    LET compatibility ==
               "kodak_portra_400" :> << "camera_001", "camera_002", "camera_009" >>
            @@ "kodak_ultramax_400" :>
                 << "camera_001", "camera_002", "camera_005", "camera_006" >>
            @@ "fuji_superia_400" :> << "camera_001", "camera_002", "camera_003" >>
            @@ "ilford_hp5_400" :>
                 << "camera_001", "camera_002", "camera_007", "camera_008" >>
            @@ "kodak_gold_200" :> << "camera_001", "camera_002", "camera_009" >>
            @@ "fuji_velvia_50" :> << "camera_001", "camera_002", "camera_010" >>
            @@ "kodak_tmax_100" :>
                 << "camera_001", "camera_002", "camera_007", "camera_008" >>
            @@ "agfa_vista_200" :> << "camera_001", "camera_002", "camera_009" >>
            @@ "lomography_color_400" :>
                 << "camera_003", "camera_004", "camera_005", "camera_006" >>
            @@ "cinestill_800t" :>
                 << "camera_001", "camera_002", "camera_003", "camera_004" >>
    IN  IF filmStock \in DOMAIN compatibility THEN compatibility[filmStock]
        ELSE <<>>

\* getCompatibleFilmStocks(camera)
getCompatibleFilmStocks(camera) ==
    LET versatile == << "kodak_portra_400", "kodak_gold_200", "agfa_vista_200" >>
        dramatic == << "fuji_superia_400", "lomography_color_400", "cinestill_800t" >>
        creative == << "kodak_ultramax_400", "lomography_color_400" >>
        classic == << "ilford_hp5_400", "kodak_tmax_100" >>
        compatibility ==
               "camera_001" :> versatile @@ "camera_002" :> versatile
            @@ "camera_003" :> dramatic @@ "camera_004" :> dramatic
            @@ "camera_005" :> creative @@ "camera_006" :> creative
            @@ "camera_007" :> classic @@ "camera_008" :> classic
            @@ "camera_009" :> versatile
            @@ "camera_010" :> << "fuji_velvia_50", "kodak_ultramax_400" >>
    IN  IF camera \in DOMAIN compatibility THEN compatibility[camera] ELSE <<>>

\* showCompatibilitySuggestion(type, suggestions): the suggestion element
\* is removed, and a new one listing the suggestions is inserted unless
\* the current value of the suggested field is one of them.
showCompatibilitySuggestion(d, type, suggestions) ==
    LET currentValue == IF type = "camera" THEN d.value["assemble-camera"]
                        ELSE d.value["assemble-film-stock"]
    IN  [d EXCEPT !.advisory.suggestion =
            IF \E n \in 1..Len(suggestions) : suggestions[n] = currentValue
            THEN <<>>
            ELSE << [type |-> type, suggestions |-> suggestions] >>]

\* suggestCompatibleCamera
suggestCompatibleCamera(d) ==
    LET filmStock == d.value["assemble-film-stock"]
        suggestions == getCompatibleCameras(filmStock)
    IN  IF filmStock = "" \/ filmStock = "all" THEN d
        ELSE IF Len(suggestions) > 0
        THEN showCompatibilitySuggestion(d, "camera", suggestions)
        ELSE d

\* suggestCompatibleFilmStock
suggestCompatibleFilmStock(d) ==
    LET camera == d.value["assemble-camera"]
        suggestions == getCompatibleFilmStocks(camera)
    IN  IF camera = "" \/ camera = "all" THEN d
        ELSE IF Len(suggestions) > 0
        THEN showCompatibilitySuggestion(d, "film", suggestions)
        ELSE d

\* updateCustomOrientationVisibility
updateCustomOrientationVisibility(d) ==
    [d EXCEPT !.display["custom-orientation-input"] =
        IF d.value["tenner-orientation"] = "custom" THEN "block" ELSE "none"]

\* updateLightingCodifiedDisplay('assemble-lighting', ...): its table holds
\* the sentences of lightingPhrases, each closed by a full stop.
updateLightingCodifiedDisplay(d) ==
    LET selectedValue == d.value["assemble-lighting"]
    IN  IF selectedValue = "all" \/ selectedValue \notin DOMAIN lightingPhrases
        THEN [d EXCEPT !.display["assemble-lighting-codified-display"] = "none"]
        ELSE [d EXCEPT
                !.textContent["assemble-lighting-codified-text"] =
                    lightingPhrases[selectedValue] \o ".",
                !.display["assemble-lighting-codified-display"] = "block"]

(***************************************************************************)
(* The colour palette sections.                                            *)
(***************************************************************************)

\* updateColorSwatches: the swatches and the check boxes of the selected
\* palette are rebuilt, every box checked; nothing when the palette is
\* unknown.
updateColorSwatches(d) ==
    LET selectedPalette == d.value["assemble-color-palette"]
    IN  IF selectedPalette \notin DOMAIN getColorPalettes THEN d
        ELSE [d EXCEPT !.colorChecked =
                           0..(Len(getColorPalettes[selectedPalette]) - 1)]

\* updatePaletteMode: the section of the checked mode is shown, the other
\* two hidden; in standard mode the swatches are rebuilt.
updatePaletteMode(d) ==
    LET mode == d.radio["palette-mode"]
        shown == [d EXCEPT
                    !.display["standard-palette-section"] =
                        IF mode = "standard" THEN "block" ELSE "none",
                    !.display["custom-palette-section"] =
                        IF mode = "custom" THEN "block" ELSE "none",
                    !.display["single-color-section"] =
                        IF mode = "single" THEN "block" ELSE "none"]
    IN  IF mode = "standard" THEN updateColorSwatches(shown) ELSE shown

\* `Color ${index + 1}` for the first `count` lines of a text palette.
NumberedColors(count) == [n \in 1..count |-> "Color " \o NumberToString(n)]

\* The colour names handleCustomPaletteUpload gets from a file: the names
\* of a JSON palette, 'Color n' for each of the first 8 lines of a text
\* palette.
ParsedColorNames(file) ==
    IF file.kind = "json" THEN file.names
    ELSE NumberedColors(IF Len(file.names) > 8 THEN 8 ELSE Len(file.names))

\* handleCustomPaletteUpload, ended: the colours of a JSON or text file
\* that parses are displayed in custom-color-swatches (held as the names,
\* joined) and the preview is shown; any other file gives an alert only.
handleCustomPaletteUpload(d, file) ==
    IF file.kind \notin {"json", "txt"} \/ ~file.wellFormed THEN d
    ELSE [d EXCEPT
            !.textContent["custom-color-swatches"] =
                Join(ParsedColorNames(file), ", "),
            !.display["custom-palette-preview"] = "block"]

(***************************************************************************)
(* The initial state: the page as loaded, init() done.                     *)
(***************************************************************************)

\* The page as loaded: the form at its defaults, every conditional section
\* hidden, the tripod height synced to the default camera
\* (setupCameraTripodSync), the colour check boxes built and checked
\* (updateColorSwatches), the default project in the project manager.
InitialDOM(data) ==
    [value |-> InitialValues,
     radio |-> (    "tenner-mode" :> "single"
                 @@ "palette-mode" :> "standard"
                 @@ "color-usage-mode" :> "all"),
     checked |-> ("assemble-tape-markings" :> FALSE),
     disabled |-> ("assemble-tripod-height" :> TRUE),
     display |-> (    "pose-selection" :> "none"
                   @@ "custom-pose-input" :> "none"
                   @@ "custom-orientation-input" :> "none"
                   @@ "tape-markings-section" :> "none"
                   @@ "tenner-1-option" :> "none"
                   @@ "tenner-2-option" :> "none"
                   @@ "tenner-3-option" :> "none"
                   @@ "chunk-id-display" :> "none"
                   @@ "assemble-lighting-codified-display" :> "none"
                   @@ "standard-palette-section" :> "block"
                   @@ "custom-palette-section" :> "none"
                   @@ "single-color-section" :> "none"
                   @@ "custom-palette-preview" :> "none"),
     textContent |-> (    "tenner-status" :> "Select Tenners to see combination count"
                       @@ "chunk-id-value" :> ""
                       @@ "assemble-lighting-codified-text" :> ""
                       @@ "custom-color-swatches" :> ""),
     specificOptions |-> [i \in Slots |-> <<>>],
     optionDisabled |-> [i \in Slots |-> {}],
     colorChecked |-> 0..(Len(getColorPalettes["anamalia_late_summer"]) - 1),
     tennerData |-> data,
     modal |-> HiddenModal,
     advisory |-> [warning |-> <<>>, suggestion |-> <<>>],
     projects |-> getDefaultSettings]

\* The state is the document d.
Holds(d) ==
    /\ value = d.value
    /\ radio = d.radio
    /\ checked = d.checked
    /\ disabled = d.disabled
    /\ display = d.display
    /\ textContent = d.textContent
    /\ specificOptions = d.specificOptions
    /\ optionDisabled = d.optionDisabled
    /\ colorChecked = d.colorChecked
    /\ tennerData = d.tennerData
    /\ modal = d.modal
    /\ advisory = d.advisory
    /\ projects = d.projects

\* No preview remembered yet.
NothingRemembered ==
    [known |-> FALSE, selection |-> <<>>, text |-> "", tennerInfo |-> ""]

\* loadTennerData ends with the dataset loaded or with the empty fallback.
Init ==
    /\ \E data \in {LoadedTennerData, EmptyTennerData} : Holds(InitialDOM(data))
    /\ remembered = NothingRemembered
    /\ initStep = "done"

(***************************************************************************)
(* The events.  While the preview modal is shown it covers the form: the   *)
(* form's events happen while it is hidden.  A change event comes with a   *)
(* new value.  filterRenders, which every select of a filter group also    *)
(* runs, touches only the render gallery.                                  *)
(***************************************************************************)

\* The listeners are set up at the end of init().
Idle == ~modal.show /\ initStep = "done"

Do(d) == Commit(d) /\ UNCHANGED << remembered, initStep >>

\* change of tenner-i: updateTennerStatus, updateTennerOptions,
\* updateTennerSpecificOptions.
SelectTenner(i, t) ==
    /\ Idle
    /\ t # value[TennerSelectId(i)]
    /\ t \notin optionDisabled[i]
    /\ Do(updateTennerSpecificOptions(updateTennerOptions(updateTennerStatus(
            SetValue(DOM, TennerSelectId(i), t)))))

\* change of tenner-i-specific: updateTennerStatus.
SelectSpecific(i, s) ==
    /\ Idle
    /\ display[OptionDivId(i)] = "block"
    /\ s # value[SpecificSelectId(i)]
    /\ Do(updateTennerStatus(SetValue(DOM, SpecificSelectId(i), s)))

\* change of the tenner-mode radio group: updateTennerMode.
SelectTennerMode(m) ==
    /\ Idle
    /\ m # radio["tenner-mode"]
    /\ Do(updateTennerMode([DOM EXCEPT !.radio["tenner-mode"] = m]))

\* change of tenner-pose: updateCustomPoseVisibility.
SelectPose(v) ==
    /\ Idle
    /\ PoseFieldsVisible(DOM)
    /\ v # value["tenner-pose"]
    /\ Do(updateCustomPoseVisibility(SetValue(DOM, "tenner-pose", v)))

\* change of tenner-orientation: updateCustomOrientationVisibility.
SelectOrientation(v) ==
    /\ Idle
    /\ PoseFieldsVisible(DOM)
    /\ v # value["tenner-orientation"]
    /\ Do(updateCustomOrientationVisibility(SetValue(DOM, "tenner-orientation", v)))

\* Text typed into custom-pose-text (no listener).
TypeCustomPose(text) ==
    /\ Idle
    /\ PoseFieldsVisible(DOM)
    /\ display["custom-pose-input"] = "block"
    /\ text # value["custom-pose-text"]
    /\ Do(SetValue(DOM, "custom-pose-text", text))

\* Text typed into custom-orientation-text (no listener).
TypeCustomOrientation(text) ==
    /\ Idle
    /\ PoseFieldsVisible(DOM)
    /\ display["custom-orientation-input"] = "block"
    /\ text # value["custom-orientation-text"]
    /\ Do(SetValue(DOM, "custom-orientation-text", text))

\* change of assemble-scene: updateTapeMarkingsVisibility.
SelectScene(v) ==
    /\ Idle
    /\ v # value["assemble-scene"]
    /\ Do(updateTapeMarkingsVisibility(SetValue(DOM, "assemble-scene", v)))

\* Text typed into assemble-scene-manual (no listener).
TypeManualScene(text) ==
    /\ Idle
    /\ text # value["assemble-scene-manual"]
    /\ Do(SetValue(DOM, "assemble-scene-manual", text))

\* change of assemble-tape-markings (the listener only logs).
ToggleTapeMarkings ==
    /\ Idle
    /\ display["tape-markings-section"] = "block"
    /\ Do([DOM EXCEPT !.checked["assemble-tape-markings"] = ~@])

\* change of assemble-lighting: updateLightingCodifiedDisplay.
SelectLighting(v) ==
    /\ Idle
    /\ v # value["assemble-lighting"]
    /\ Do(updateLightingCodifiedDisplay(SetValue(DOM, "assemble-lighting", v)))

\* change of a select or text of the form that has no listener of its own.
SelectPlain(id, v) ==
    /\ Idle
    /\ id \in {"assemble-film-type", "assemble-texture", "assemble-wardrobe",
               "assemble-props", "output-quality", "output-format",
               "output-color-space"}
    /\ v # value[id]
    /\ Do(SetValue(DOM, id, v))

\* change of assemble-film-stock: validateFilmCameraCompatibility,
\* suggestCompatibleCamera.
SelectFilmStock(v) ==
    /\ Idle
    /\ v # value["assemble-film-stock"]
    /\ Do(suggestCompatibleCamera(validateFilmCameraCompatibility(
            SetValue(DOM, "assemble-film-stock", v))))

\* change of assemble-camera: syncTripodHeightToCamera (the listener of
\* setupCameraTripodSync), then validateFilmCameraCompatibility and
\* suggestCompatibleFilmStock (the listener of initFilmCameraValidation).
SelectCamera(c) ==
    /\ Idle
    /\ c # value["assemble-camera"]
    /\ Do(suggestCompatibleFilmStock(validateFilmCameraCompatibility(
            syncTripodHeightToCamera(SetValue(DOM, "assemble-camera", c), c))))

\* change of assemble-tripod-height, possible while it is enabled (no
\* listener).
SelectTripodHeight(h) ==
    /\ Idle
    /\ ~disabled["assemble-tripod-height"]
    /\ h # value["assemble-tripod-height"]
    /\ Do(SetValue(DOM, "assemble-tripod-height", h))

\* change of output-width: syncAspectRatioToDimensions.
SelectWidth(w) ==
    /\ Idle
    /\ w # value["output-width"]
    /\ Do(syncAspectRatioToDimensions(SetValue(DOM, "output-width", w)))

\* change of output-height: syncAspectRatioToDimensions.
SelectHeight(h) ==
    /\ Idle
    /\ h # value["output-height"]
    /\ Do(syncAspectRatioToDimensions(SetValue(DOM, "output-height", h)))

\* change of output-aspect-ratio: syncDimensionsToAspectRatio.
SelectAspectRatio(r) ==
    /\ Idle
    /\ r # value["output-aspect-ratio"]
    /\ Do(syncDimensionsToAspectRatio(SetValue(DOM, "output-aspect-ratio", r)))

\* click on reset-defaults-btn.
ResetToDefaults ==
    /\ Idle
    /\ Do(resetToDefaults(DOM))

\* click on a section save button.
SaveSection(mappedSectionName) ==
    /\ Idle
    /\ Do(saveSectionToProject(DOM, mappedSectionName))

\* click on load-project-btn.
LoadProject ==
    /\ Idle
    /\ Do(loadProject(DOM))

\* click on preview-prompt-btn.
PreviewPrompt ==
    /\ Idle
    /\ Do(previewPrompt(DOM))

\* click on the close button of the modal, on its backdrop, or Escape.
HidePromptPreviewModal ==
    /\ modal.show
    /\ Do(hidePromptPreviewModal(DOM))

\* The field choices a preview is made from.
Selection == << value, radio, checked, colorChecked >>

\* The Tenner metadata of the preview on display ('' when none is shown).
ShownTennerInfo == modal.tennerInfo

\* History: the preview on display is remembered with its selection.
Remember ==
    /\ modal.show
    /\ ~remembered.known
    /\ remembered' = [known |-> TRUE, selection |-> Selection,
                      text |-> modal.text,
                      tennerInfo |-> ShownTennerInfo]
    /\ UNCHANGED << value, radio, checked, disabled, display, textContent,
                    specificOptions, optionDisabled, colorChecked, tennerData,
                    modal, advisory, projects, initStep >>

(***************************************************************************)
(* Chunk classification.  The three Tenner dropdowns hold any selection of *)
(* up to three distinct dimensions, in any order of the slots; the mode    *)
(* toggle runs updateTennerStatus, which classifies it.                    *)
(***************************************************************************)

TennerModes == {"single", "batch"}

\* The form after the three Tenner dropdowns were set to t[1], t[2], t[3].
TennersChosen(t) ==
    LET chosen == [InitialDOM(LoadedTennerData) EXCEPT
                      !.value = [id \in DOMAIN InitialValues |->
                                    IF \E i \in Slots : id = TennerSelectId(i)
                                    THEN t[CHOOSE i \in Slots : id = TennerSelectId(i)]
                                    ELSE InitialValues[id]]]
    IN  updateTennerSpecificOptions(updateTennerOptions(updateTennerStatus(chosen)))

\* The set of the elements of a sequence.
Elements(seq) == {seq[n] : n \in 1..Len(seq)}

\* The dimensions the dropdowns offer in this specification: every
\* dimension of a predefined chunk, and T1..T11.
MaxChunkTenner == 11

ChunkTenners ==
    UNION {Elements(loadChunkMappings[k].tennerSet) :
              k \in 1..Len(loadChunkMappings)}
        \cup {TennerKey(j) : j \in 1..MaxChunkTenner}

InitChunk ==
    /\ \E t \in [Slots -> ChunkTenners \cup {""}] :
          /\ \A i, j \in Slots : i # j /\ t[i] # "" => t[i] # t[j]
          /\ Holds(TennersChosen(t))
    /\ remembered = NothingRemembered
    /\ initStep = "done"

NextChunk == \E m \in TennerModes : SelectTennerMode(m)

SpecChunk == InitChunk /\ [][NextChunk]_vars

\* The orderings of a sequence.
Orderings(seq) ==
    LET n == Len(seq)
        bijections == {f \in [1..n -> 1..n] : \A a, b \in 1..n : a # b => f[a] # f[b]}
    IN  {[k \in 1..n |-> seq[f[k]]] : f \in bijections}

\* C1: chunk classification is independent of the order of the input: the
\* chunk id on display, computed from the dimensions in slot order, is the
\* id generateChunkId returns for every ordering of these dimensions, and
\* all orderings of a selection get one id.
C1_OrderIndependent ==
    display["chunk-id-display"] = "block" =>
        \A p \in Orderings(SelectedTenners(DOM)) :
            /\ generateChunkId(p) = textContent["chunk-id-value"]
            /\ generateChunkId(p) = generateChunkId(SortTenners(p))

\* C1 witness: after a mode toggle, a predefined chunk or a custom selection
\* on display with its dimensions out of sorted order.
C1_Witness ==
    /\ radio["tenner-mode"] = "batch"
    /\ display["chunk-id-display"] = "block"
    /\ SelectedTenners(DOM) \in {<< "T2", "T1", "T4" >>, << "T5", "T3" >>}
    /\ textContent["chunk-id-value"] \in {"CHUNK1", "CUSTOM_T3_T5"}

\* The chunks whose dimension set is the set of the selected dimensions.
ChunksOf(selected) ==
    {k \in 1..Len(loadChunkMappings) :
        Elements(loadChunkMappings[k].tennerSet) = Elements(selected)}

\* The ids in the order of Array.prototype.sort(): as strings.
InStringOrder(seq) ==
    \A a, b \in 1..Len(seq) : a < b => StringLess(seq[a], seq[b])

\* C2: the chunk id on display is the id of a predefined chunk exactly when
\* the set of the selected dimensions is that chunk's set; a selection that
\* is no chunk's set gets CUSTOM_ and its ids, sorted (as strings) and
\* joined by underscores.
C2_ExactSetMatch ==
    display["chunk-id-display"] = "block" =>
        LET selected == SelectedTenners(DOM)
            id == textContent["chunk-id-value"]
        IN  /\ \A k \in 1..Len(loadChunkMappings) :
                  id = loadChunkMappings[k].id <=> k \in ChunksOf(selected)
            /\ ChunksOf(selected) = {} =>
                  \E p \in Orderings(selected) :
                      /\ InStringOrder(p)
                      /\ id = "CUSTOM_" \o Join(p, "_")

\* C2 witness: after a mode toggle, a strict subset or a strict superset of
\* the set of CHUNK3 on display, or T5 alone.
C2_Witness ==
    /\ radio["tenner-mode"] = "batch"
    /\ display["chunk-id-display"] = "block"
    /\ \/ /\ SelectedTenners(DOM) = << "T6" >>
          /\ textContent["chunk-id-value"] = "CUSTOM_T6"
       \/ /\ SelectedTenners(DOM) = << "T7", "T6", "T1" >>
          /\ textContent["chunk-id-value"] = "CUSTOM_T1_T6_T7"
       \/ /\ SelectedTenners(DOM) = << "T5" >>
          /\ textContent["chunk-id-value"] = "CUSTOM_T5"

(***************************************************************************)
(* Determinism of the preview.  Tenner selections, mode toggles, resets    *)
(* and previews; one preview is remembered with the selection it was made  *)
(* from, and later previews are compared with it.                          *)
(***************************************************************************)

DeterminismSlots == {1}

DeterminismTenners == {"T1", "T2"}

NextDeterminism ==
    \/ \E i \in DeterminismSlots, t \in DeterminismTenners \cup {""} :
          SelectTenner(i, t)
    \/ \E m \in TennerModes : SelectTennerMode(m)
    \/ ResetToDefaults
    \/ PreviewPrompt
    \/ HidePromptPreviewModal
    \/ Remember

SpecDeterminism == Init /\ [][NextDeterminism]_vars

\* C3: composition is deterministic: a preview made from the field choices
\* an earlier preview was made from shows the same prompt text and the same
\* Tenner metadata, whatever events happened in between.
C3_Deterministic ==
    (remembered.known /\ modal.show /\ Selection = remembered.selection) =>
        /\ modal.text = remembered.text
        /\ ShownTennerInfo = remembered.tennerInfo

\* C3: two previews of one selection are on record.
C3_Witness ==
    /\ remembered.known
    /\ modal.show
    /\ Selection = remembered.selection
    /\ \E i \in Slots : value[TennerSelectId(i)] # ""

(***************************************************************************)
(* The Tenner planner: selections in the three slots, specific options,    *)
(* the mode toggle, resets and previews.                                   *)
(***************************************************************************)

\* The dimensions the dropdowns are set to in this specification: T1 or T2
\* in the first two, T4 in the third.
TennerChoices(i) == IF i = 3 THEN {"T4"} ELSE {"T1", "T2"}

\* Of each specific option dropdown, the first MaxOptionChoice options are
\* chosen from.
MaxOptionChoice == 1

OptionChoices(i) ==
    {specificOptions[i][n] :
        n \in 1..(IF Len(specificOptions[i]) < MaxOptionChoice
                  THEN Len(specificOptions[i]) ELSE MaxOptionChoice)}

NextTenner ==
    \/ \E i \in Slots : \E t \in TennerChoices(i) \cup {""} : SelectTenner(i, t)
    \/ \E i \in Slots : \E s \in OptionChoices(i) \cup {""} : SelectSpecific(i, s)
    \/ \E m \in TennerModes : SelectTennerMode(m)
    \/ ResetToDefaults
    \/ PreviewPrompt
    \/ HidePromptPreviewModal

SpecTenner == Init /\ [][NextTenner]_vars

\* 10^k written with the superscript the status line uses.
PowerText(k) ==
    IF k = 1 THEN "10¹" ELSE IF k = 2 THEN "10²" ELSE "10³"

\* C4: in batch mode with k = 1, 2, 3 selected dimensions the status line
\* shows the count 10^k, and the Tenner metadata of a preview of the same
\* selection shows the same count 10^k.
C4_BatchCount ==
    LET selected == SelectedTenners(DOM)
        k == Len(selected)
        count == NumberToString(Pow10(k))
    IN  (radio["tenner-mode"] = "batch" /\ k \in 1..3) =>
            /\ textContent["tenner-status"] =
                   NumberToString(k)
                       \o (IF k = 1 THEN " Tenner" ELSE " Tenners")
                       \o " selected: " \o count \o " permutations ("
                       \o PowerText(k) \o ")"
            /\ modal.show =>
                   ShownTennerInfo =
                       "<p><strong>Mode:</strong> Batch Mode: "
                           \o Join(selected, ", ") \o " (" \o count
                           \o " permutations)</p>"

\* C4 witness: a batch preview of the three dimensions T2, T1 and T4.
C4_Witness ==
    /\ radio["tenner-mode"] = "batch"
    /\ modal.show
    /\ Len(SelectedTenners(DOM)) = 3
    /\ ShownTennerInfo =
           "<p><strong>Mode:</strong> Batch Mode: T2, T1, T4 (1000 permutations)</p>"
    /\ textContent["tenner-status"] = "3 Tenners selected: 1000 permutations (10³)"

\* C5: in single mode, whenever fewer specific options are chosen than
\* dimensions are selected, the status line asks to choose specific options
\* and the Tenner metadata of a preview says that the options are not
\* selected.
C5_IncompleteReported ==
    LET selected == SelectedTenners(DOM)
        k == Len(selected)
    IN  (/\ radio["tenner-mode"] = "single"
         /\ k >= 1
         /\ Len(SelectedSpecifics(DOM)) < k) =>
            /\ textContent["tenner-status"] =
                   "Single mode: " \o NumberToString(k)
                       \o " Tenner(s) selected - choose specific options"
            /\ modal.show =>
                   ShownTennerInfo =
                       "<p><strong>Mode:</strong> Single Mode: "
                           \o Join(selected, ", ")
                           \o " (specific options not selected)</p>"

\* C5 witness: two dimensions selected and one specific option chosen, in
\* a preview.
C5_Witness ==
    /\ radio["tenner-mode"] = "single"
    /\ modal.show
    /\ Len(SelectedTenners(DOM)) = 2
    /\ Len(SelectedSpecifics(DOM)) = 1

(***************************************************************************)
(* Camera and tripod height.  The camera dropdown offers the ten cameras   *)
(* and 'all'; the tripod-height dropdown offers the heights of the         *)
(* mapping and can be changed while it is enabled; the mood-lighting       *)
(* section is saved to the project and the project is loaded.              *)
(***************************************************************************)

CameraChoices == CameraIds \cup {"all"}

TripodHeights == {cameraHeightMapping[c] : c \in CameraIds}

NextCamera ==
    \/ \E c \in CameraChoices : SelectCamera(c)
    \/ \E h \in TripodHeights : SelectTripodHeight(h)
    \/ ResetToDefaults
    \/ SaveSection("moodLighting")
    \/ LoadProject
    \/ PreviewPrompt
    \/ HidePromptPreviewModal

SpecCamera == Init /\ [][NextCamera]_vars

\* The ids camera_001 .. camera_010.
TenCameraIds ==
    {"camera_00" \o NumberToString(n) : n \in 1..9} \cup {"camera_010"}

\* The camera sentence of the prompt on display, as a sequence of at most
\* one text.
ShownCameraTexts ==
    LET places == {n \in 1..Len(modal.fragments) :
                      modal.fragments[n].step = "camera"}
    IN  [n \in 1..Cardinality(places) |->
            modal.fragments[CHOOSE m \in places : TRUE].text]

\* C6: the camera-to-height mapping is defined on exactly the ten ids
\* camera_001 .. camera_010 (camera_003 has 0.5), and the camera sentence of
\* a composed prompt carries the canonical height of the selected camera,
\* whatever the tripod-height field holds.
C6_CanonicalHeight ==
    /\ DOMAIN cameraHeightMapping = TenCameraIds
    /\ \A c \in TenCameraIds : cameraHeightMapping[c] \in {"0.5", "0.75", "1.0", "1.5"}
    /\ cameraHeightMapping["camera_003"] = "0.5"
    /\ (modal.show /\ value["assemble-camera"] \in TenCameraIds) =>
          LET camera == value["assemble-camera"]
              canonical == cameraHeightMapping[camera]
          IN  ShownCameraTexts =
                  << ". " \o cameraDescriptions[camera][1]
                          \o (IF canonical = "1.0" THEN "1 meter"
                              ELSE canonical \o " meters")
                          \o cameraDescriptions[camera][2] >>

\* C6 witness: a prompt composed for camera_001 while the tripod-height
\* field holds 0.5; the sentence says 1 meter.
C6_Witness ==
    /\ modal.show
    /\ value["assemble-camera"] = "camera_001"
    /\ value["assemble-tripod-height"] = "0.5"
    /\ ShownCameraTexts =
           << ". " \o cameraDescriptions["camera_001"][1] \o "1 meter"
                   \o cameraDescriptions["camera_001"][2] >>

\* C7: whenever the selected camera is one of the ten cameras, the
\* tripod-height field holds that camera's canonical height and is
\* disabled; it is enabled only while no mapped camera is selected.
C7_FieldFollowsCamera ==
    /\ value["assemble-camera"] \in TenCameraIds =>
          /\ value["assemble-tripod-height"] =
                 cameraHeightMapping[value["assemble-camera"]]
          /\ disabled["assemble-tripod-height"]
    /\ ~disabled["assemble-tripod-height"] =>
          value["assemble-camera"] \notin TenCameraIds

\* C7 witness: camera_003 selected after the project that was saved with
\* camera 'all' and height 1.5 was loaded.
C7_Witness ==
    /\ value["assemble-camera"] = "camera_003"
    /\ value["assemble-tripod-height"] = "0.5"
    /\ disabled["assemble-tripod-height"]
    /\ projects.moodLighting.camera = "all"
    /\ projects.moodLighting.tripodHeight = "1.5"

(***************************************************************************)
(* Output parameters.  The width and the height dropdown offer the         *)
(* numeric options, the aspect-ratio dropdown the six ratios and 'custom'. *)
(***************************************************************************)

DimensionValues ==
    {NumberToString(DimensionOptions[n]) : n \in 1..Len(DimensionOptions)}

AspectRatioChoices == {ratios[n][1] : n \in 1..Len(ratios)} \cup {"custom"}

NextOutput ==
    \/ \E w \in DimensionValues : SelectWidth(w)
    \/ \E h \in DimensionValues : SelectHeight(h)
    \/ \E r \in AspectRatioChoices : SelectAspectRatio(r)
    \/ ResetToDefaults
    \/ PreviewPrompt
    \/ HidePromptPreviewModal

SpecOutput == Init /\ [][NextOutput]_vars

\* The number a value of the width or of the height dropdown stands for.
NumberOf(v) ==
    CHOOSE n \in {DimensionOptions[m] : m \in 1..Len(DimensionOptions)} :
        NumberToString(n) = v

\* |width / height - num / den| <= 0.05, in integers:
\* 20 * |width * den - num * height| <= height * den.
DeviationAtMost5Percent(width, height, num, den) ==
    20 * Abs(width * den - num * height) <= height * den

\* |width / height - a| <= |width / height - b| for the ratios a and b.
NoFartherThan(width, height, a, b) ==
    Abs(width * a[3] - a[2] * height) * b[3]
        <= Abs(width * b[3] - b[2] * height) * a[3]

\* C8: a change of the width or of the height leaves in the aspect-ratio
\* field a ratio of least deviation from width / height when that
\* deviation is at most 0.05, and 'custom' when every ratio deviates by
\* more than 0.05; 1024 by 768 gives 4:3.
C8_RatioFollowsDimensions ==
    [][((\E w \in DimensionValues : SelectWidth(w))
            \/ (\E h \in DimensionValues : SelectHeight(h))) =>
          LET width == NumberOf(value'["output-width"])
              height == NumberOf(value'["output-height"])
              near == {n \in 1..Len(ratios) :
                          DeviationAtMost5Percent(width, height,
                                                  ratios[n][2], ratios[n][3])}
              chosen == value'["output-aspect-ratio"]
          IN  /\ near = {} => chosen = "custom"
              /\ near # {} =>
                    \E n \in near :
                       /\ chosen = ratios[n][1]
                       /\ \A m \in 1..Len(ratios) :
                             NoFartherThan(width, height, ratios[n], ratios[m])
              /\ (width = 1024 /\ height = 768) => chosen = "4:3"]_vars

\* C8 witness: width 1024 and height 768 with the ratio 4:3.
C8_Witness ==
    /\ value["output-width"] = "1024"
    /\ value["output-height"] = "768"
    /\ value["output-aspect-ratio"] = "4:3"

\* C9: selecting a ratio other than 'custom' leaves the width unchanged
\* and sets the height to a height option nearest to
\* round(width * ratioH / ratioW) (576 for 16:9 at width 1024); selecting
\* 'custom' changes neither the width nor the height.
C9_HeightFollowsRatio ==
    [][\A r \in AspectRatioChoices :
          SelectAspectRatio(r) =>
             /\ value'["output-width"] = value["output-width"]
             /\ r = "custom" => value'["output-height"] = value["output-height"]
             /\ r # "custom" =>
                   LET n == CHOOSE n \in 1..Len(ratios) : ratios[n][1] = r
                       width == NumberOf(value["output-width"])
                       target == (2 * width * ratios[n][3] + ratios[n][2])
                                     \div (2 * ratios[n][2])
                       newHeight == NumberOf(value'["output-height"])
                   IN  /\ value'["output-height"] \in DimensionValues
                       /\ \A m \in 1..Len(DimensionOptions) :
                             Abs(newHeight - target)
                                 <= Abs(DimensionOptions[m] - target)
                       /\ (r = "16:9" /\ width = 1024) =>
                             target = 576 /\ newHeight = 512]_vars

\* C9 witness: 16:9 selected at width 1024 has set the height to 512, the
\* option nearest to 576.
C9_Witness ==
    /\ value["output-aspect-ratio"] = "16:9"
    /\ value["output-width"] = "1024"
    /\ value["output-height"] = "512"

(***************************************************************************)
(* Composition.  T1 is selected and deselected in the first Tenner         *)
(* dropdown (which shows and hides the pose section), a specific option is *)
(* chosen, scene, lighting, wardrobe and props are switched                *)
(* between a value and the value that leaves them out of the prompt, and   *)
(* the prompt is previewed.                                                *)
(***************************************************************************)

ComposeChoices ==
    { << "assemble-wardrobe", "sunhat" >>, << "assemble-wardrobe", "none" >>,
      << "assemble-props", "book" >>, << "assemble-props", "none" >> }

NextCompose ==
    \/ \E t \in {"T1", ""} : SelectTenner(1, t)
    \/ \E s \in OptionChoices(1) \cup {""} : SelectSpecific(1, s)
    \/ \E v \in {"piazza_v2", "all"} : SelectScene(v)
    \/ \E v \in {"lighting_001", "all"} : SelectLighting(v)
    \/ \E choice \in ComposeChoices : SelectPlain(choice[1], choice[2])
    \/ ResetToDefaults
    \/ PreviewPrompt
    \/ HidePromptPreviewModal

SpecCompose == Init /\ [][NextCompose]_vars

\* The place of a step in the pipeline.
StepIndex(step) ==
    CHOOSE n \in 1..Len(PipelineSteps) : PipelineSteps[n] = step

\* The texts of `required` occur among `texts`, in that order.
RECURSIVE OccursInOrder(_, _)
OccursInOrder(texts, required) ==
    IF required = <<>> THEN TRUE
    ELSE IF texts = <<>> THEN FALSE
    ELSE IF Head(texts) = Head(required)
    THEN OccursInOrder(Tail(texts), Tail(required))
    ELSE OccursInOrder(Tail(texts), required)

\* The default selection: pose arms_open_welcome, scene piazza_v2,
\* lighting_001, stop_motion, texture_001, kodak_portra_400, camera_001,
\* wardrobe none, props none.
DefaultSelection ==
    /\ value["tenner-pose"] = "arms_open_welcome"
    /\ value["assemble-scene"] = "piazza_v2"
    /\ value["assemble-scene-manual"] = ""
    /\ value["assemble-lighting"] = "lighting_001"
    /\ value["assemble-film-type"] = "stop_motion"
    /\ value["assemble-texture"] = "texture_001"
    /\ value["assemble-film-stock"] = "kodak_portra_400"
    /\ value["assemble-camera"] = "camera_001"
    /\ value["assemble-wardrobe"] = "none"
    /\ value["assemble-props"] = "none"

\* The pose phrase of the default selection.
DefaultPosePhrase == " in a arms open_welcome pose"

\* The phrases of the default selection after the pose phrase.
DefaultPhrases ==
    << " at a piazza v2",
       " with " \o lightingPhrases["lighting_001"],
       " in stop motion style",
       ". " \o texturePhrases["texture_001"],
       ". " \o filmStockPhrases["kodak_portra_400"],
       ". " \o cameraDescriptions["camera_001"][1] \o "1 meter"
            \o cameraDescriptions["camera_001"][2] >>

\* The pieces of the prompt on display keep the order of the pipeline, and
\* the fixed suffix is the last of them.
ShownInPipelineOrder ==
    LET fragments == modal.fragments
    IN  /\ \A i, j \in 1..Len(fragments) :
              i < j => StepIndex(fragments[i].step) <= StepIndex(fragments[j].step)
        /\ fragments # <<>>
        /\ fragments[Len(fragments)] =
               Fragment("suffix", ", 3D stop-motion style, high quality, detailed")
        /\ modal.text = Join(Texts(fragments), "")

UnsetValues == {"", "all", "none"}

FieldChoices ==
    [scene : {"piazza_v2"} \cup UnsetValues,
     sceneManual : {"", "none"},
     lighting : {"lighting_001", "lighting_soft_box"} \cup UnsetValues,
     filmType : {"stop_motion", "puppet_animation"} \cup UnsetValues,
     filmStock : {"kodak_portra_400", "kodak_ektar_100"} \cup UnsetValues,
     wardrobe : {"sunhat"} \cup UnsetValues,
     props : {"book"} \cup UnsetValues]

\* The form after the fields were set to the values of f: the listeners of
\* assemble-scene, assemble-lighting and assemble-film-stock have run.
FieldsChosen(f) ==
    LET page == InitialDOM(LoadedTennerData)
        chosen == [page EXCEPT
                      !.value["assemble-scene"] = f.scene,
                      !.value["assemble-scene-manual"] = f.sceneManual,
                      !.value["assemble-lighting"] = f.lighting,
                      !.value["assemble-film-type"] = f.filmType,
                      !.value["assemble-film-stock"] = f.filmStock,
                      !.value["assemble-wardrobe"] = f.wardrobe,
                      !.value["assemble-props"] = f.props]
    IN  suggestCompatibleCamera(validateFilmCameraCompatibility(
            updateLightingCodifiedDisplay(updateTapeMarkingsVisibility(chosen))))

InitFields ==
    /\ \E f \in FieldChoices : Holds(FieldsChosen(f))
    /\ remembered = NothingRemembered
    /\ initStep = "done"

NextFields ==
    \/ PreviewPrompt
    \/ HidePromptPreviewModal
    \/ ResetToDefaults

SpecFields == InitFields /\ [][NextFields]_vars

\* The texts of the pieces of one step in the prompt on display.
ShownTextsOf(step) ==
    LET kept == SelectSeq(modal.fragments, LAMBDA fragment : fragment.step = step)
    IN  Texts(kept)

\* The value of the scene field: the manual text, else the dropdown.
SceneValue ==
    IF value["assemble-scene-manual"] # "" THEN value["assemble-scene-manual"]
    ELSE value["assemble-scene"]

\* C11: a composed prompt has no fragment for scene, lighting, film type,
\* film stock, wardrobe or props when the value of that field is unset,
\* 'all' or 'none'.
C11_UnsetOmitted ==
    modal.show =>
        /\ SceneValue \in UnsetValues => ShownTextsOf("scene") = <<>>
        /\ value["assemble-lighting"] \in UnsetValues =>
              ShownTextsOf("lighting") = <<>>
        /\ value["assemble-film-type"] \in UnsetValues =>
              ShownTextsOf("filmType") = <<>>
        /\ value["assemble-film-stock"] \in UnsetValues =>
              ShownTextsOf("filmStock") = <<>>
        /\ value["assemble-wardrobe"] \in UnsetValues =>
              ShownTextsOf("wardrobe") = <<>>
        /\ value["assemble-props"] \in UnsetValues =>
              ShownTextsOf("props") = <<>>

\* C11 witness: a preview with the wardrobe 'all' and the lighting 'none';
\* the prompt carries a fragment for both.
C11_Witness ==
    /\ modal.show
    /\ value["assemble-wardrobe"] = "all"
    /\ value["assemble-lighting"] = "none"
    /\ ShownTextsOf("wardrobe") = << " wearing a all" >>
    /\ ShownTextsOf("lighting") = << " with none lighting" >>

\* C12: an id the phrase dictionary does not know never aborts the
\* composition: the lighting, the film-stock and every film-type fragment
\* is built from the id with every underscore replaced by a space, and the
\* rest of the prompt is composed as usual.
C12_LiteralFallback ==
    LET lighting == value["assemble-lighting"]
        filmStock == value["assemble-film-stock"]
        filmType == value["assemble-film-type"]
    IN  modal.show =>
            /\ ShownInPipelineOrder
            /\ (lighting \notin UnsetValues /\ lighting \notin DOMAIN lightingPhrases) =>
                  ShownTextsOf("lighting") =
                      << " with " \o ReplaceAllUnderscores(lighting) \o " lighting" >>
            /\ (filmStock \notin UnsetValues
                    /\ filmStock \notin DOMAIN filmStockPhrases) =>
                  ShownTextsOf("filmStock") =
                      << ". Shot on " \o ReplaceAllUnderscores(filmStock) \o " film" >>
            /\ filmType \notin UnsetValues =>
                  ShownTextsOf("filmType") =
                      << " in " \o ReplaceAllUnderscores(filmType) \o " style" >>

\* C12 witness: a preview with a lighting id and a film-stock id that the
\* dictionaries do not know; both fragments are built from the id, the
\* second underscore kept.
C12_Witness ==
    /\ modal.show
    /\ value["assemble-lighting"] = "lighting_soft_box"
    /\ value["assemble-film-stock"] = "kodak_ektar_100"
    /\ ShownTextsOf("lighting") = << " with lighting soft_box lighting" >>
    /\ ShownTextsOf("filmStock") = << ". Shot on kodak ektar_100 film" >>
    /\ ShownInPipelineOrder

(***************************************************************************)
(* The Tenner sub-system and the prompt (checked under SpecTenner).        *)
(***************************************************************************)

\* The form with the Tenner dropdowns and the specific option dropdowns
\* emptied, every other field and section as it is.
WithoutTenners(d) ==
    [d EXCEPT !.value =
        [id \in DOMAIN d.value |->
            IF \E i \in Slots : id \in {TennerSelectId(i), SpecificSelectId(i)}
            THEN "" ELSE d.value[id]]]

\* C13: in batch mode the prompt is the prompt of the non-Tenner fields
\* alone, whatever dimensions are selected and whatever options were chosen
\* earlier in single mode; mode, dimensions and count are in the Tenner
\* metadata only.
C13_BatchPromptTennerFree ==
    (modal.show /\ radio["tenner-mode"] = "batch") =>
        /\ modal.text = Join(Texts(PromptFragments(WithoutTenners(DOM))), "")
        /\ ShownTextsOf("tenner") = <<>>

\* C13 witness: a batch preview with T1 selected while tenner-1-specific
\* still holds the option chosen in single mode.
C13_Witness ==
    /\ modal.show
    /\ radio["tenner-mode"] = "batch"
    /\ value["tenner-1"] = "T1"
    /\ value["tenner-1-specific"] = "T1-0: rhino named Ruby"
    /\ ShownTennerInfo = "<p><strong>Mode:</strong> Batch Mode: T1 (10 permutations)</p>"

\* The slots in which T1 is selected with a concrete option chosen.
CharacterSlots ==
    {i \in Slots : /\ value[TennerSelectId(i)] = "T1"
                   /\ value[SpecificSelectId(i)] # ""}

\* C14: a single-mode prompt starts with the descriptor of the chosen T1
\* option, in whichever slot T1 is selected, and with 'A character' when no
\* T1 option is chosen.
C14_StartsWithCharacter ==
    (modal.show /\ radio["tenner-mode"] = "single") =>
        /\ \A i \in CharacterSlots :
              modal.fragments[1] =
                  Fragment("subject",
                           MatchSpecific(value[SpecificSelectId(i)]).descriptor)
        /\ CharacterSlots = {} =>
              modal.fragments[1] = Fragment("subject", "A character")

\* C14 witness: a single-mode preview with T1 and its first option in the
\* second slot.
C14_Witness ==
    /\ modal.show
    /\ radio["tenner-mode"] = "single"
    /\ value["tenner-1"] = "T2"
    /\ value["tenner-2"] = "T1"
    /\ value["tenner-2-specific"] = "T1-0: rhino named Ruby"
    /\ modal.fragments[1] = Fragment("subject", "A character")

(***************************************************************************)
(* The output parameters in the prompt (checked under SpecOutput).         *)
(***************************************************************************)

\* The texts of the shown output-parameter fragments.
ShownOutputTexts ==
    {ShownTextsOf("output")[n] : n \in 1..Len(ShownTextsOf("output"))}

AspectRatioText(name) == ", " \o name \o " aspect ratio"

\* C15: the prompt contains the aspect-ratio fragment of the selected ratio
\* exactly when width / height deviates from it by at most 0.05, the
\* tolerance of the aspect-ratio sync, and contains none for 'custom'.
C15_RatioFragmentWithinTolerance ==
    modal.show =>
        LET width == NumberOf(value["output-width"])
            height == NumberOf(value["output-height"])
            selected == value["output-aspect-ratio"]
        IN  /\ \A n \in 1..Len(ratios) :
                  AspectRatioText(ratios[n][1]) \in ShownOutputTexts <=>
                      /\ selected = ratios[n][1]
                      /\ DeviationAtMost5Percent(width, height,
                                                 ratios[n][2], ratios[n][3])
            /\ AspectRatioText("custom") \notin ShownOutputTexts

\* C15 witness: 768 by 1280 deviates from 9:16 by 0.0375; the sync has
\* chosen 9:16 and the prompt has no aspect-ratio fragment.
C15_Witness ==
    /\ modal.show
    /\ value["output-width"] = "768"
    /\ value["output-height"] = "1280"
    /\ value["output-aspect-ratio"] = "9:16"
    /\ AspectRatioText("9:16") \notin ShownOutputTexts
    /\ ", 768x1280 pixels" \in ShownOutputTexts

\* The output fields changed one at a time, with previews.
QualityChoices == {"standard", "high", "ultra"}
FormatChoices == {"png", "jpeg"}
ColorSpaceChoices == {"sRGB", "Adobe RGB"}
ResolutionChoices == {"512", "1024"}

NextOutputFields ==
    \/ \E w \in ResolutionChoices : SelectWidth(w)
    \/ \E h \in ResolutionChoices : SelectHeight(h)
    \/ \E q \in QualityChoices : SelectPlain("output-quality", q)
    \/ \E f \in FormatChoices : SelectPlain("output-format", f)
    \/ \E c \in ColorSpaceChoices : SelectPlain("output-color-space", c)
    \/ ResetToDefaults
    \/ PreviewPrompt
    \/ HidePromptPreviewModal

SpecOutputFields == Init /\ [][NextOutputFields]_vars

HasResolutionFragment ==
    \E w, h \in ResolutionChoices :
        (", " \o w \o "x" \o h \o " pixels") \in ShownOutputTexts

HasQualityFragment ==
    \E q \in QualityChoices : (", " \o q \o " quality") \in ShownOutputTexts

HasFormatFragment ==
    \E f \in FormatChoices :
        (", " \o ToUpperCase(f) \o " format") \in ShownOutputTexts

HasColorSpaceFragment ==
    \E c \in ColorSpaceChoices :
        (", " \o c \o " color space") \in ShownOutputTexts

\* C16: the resolution, quality, format and colour-space fragments are in
\* the prompt only when the field differs from its default (1024x1024,
\* high, png, sRGB); with every output field at its default the prompt has
\* none of the four.
C16_OnlyNonDefaultOutput ==
    modal.show =>
        /\ HasResolutionFragment =>
              ~ (value["output-width"] = "1024" /\ value["output-height"] = "1024")
        /\ HasQualityFragment => value["output-quality"] # "high"
        /\ HasFormatFragment => value["output-format"] # "png"
        /\ HasColorSpaceFragment => value["output-color-space"] # "sRGB"

\* C16 witness: the preview of the form with every output field at its
\* default shows the resolution and the quality, and neither format nor
\* colour space.
C16_Witness ==
    /\ modal.show
    /\ value["output-width"] = "1024"
    /\ value["output-height"] = "1024"
    /\ value["output-quality"] = "high"
    /\ value["output-format"] = "png"
    /\ value["output-color-space"] = "sRGB"
    /\ ShownTextsOf("output") = << ", 1024x1024 pixels", ", high quality" >>

(***************************************************************************)
(* Film stock / camera advisories: every film stock with every camera.     *)
(***************************************************************************)

FilmStockIds == DOMAIN filmStockPhrases

FilmStockChoices == FilmStockIds \cup {"all"}

\* Every film stock with every camera.
NextAdvisory ==
    \/ \E v \in FilmStockChoices : SelectFilmStock(v)
    \/ \E c \in CameraChoices : SelectCamera(c)

SpecAdvisory == Init /\ [][NextAdvisory]_vars

\* Pairs of each rule class, with previews.
PreviewedFilmStocks ==
    {"kodak_portra_400", "kodak_tmax_100", "cinestill_800t", "all"}

PreviewedCameras == {"camera_001", "camera_003", "camera_010", "all"}

NextAdvisoryPreview ==
    \/ \E v \in PreviewedFilmStocks : SelectFilmStock(v)
    \/ \E c \in PreviewedCameras : SelectCamera(c)
    \/ PreviewPrompt
    \/ HidePromptPreviewModal

SpecAdvisoryPreview == Init /\ [][NextAdvisoryPreview]_vars

\* The form with no advisory on display.
WithoutAdvisory(d) ==
    [d EXCEPT !.advisory = [warning |-> <<>>, suggestion |-> <<>>]]

\* The outcomes of the advisory steps run on the form as it is.
AdvisorySteps ==
    { validateFilmCameraCompatibility(DOM),
      suggestCompatibleCamera(DOM),
      suggestCompatibleFilmStock(DOM) }

\* C17: validateFilmCameraCompatibility and the suggestion steps change no
\* field of the form (film stock, camera and tripod height among them), and
\* the prompt of a selection is the same with and without advisories on
\* display.
C17_AdvisoriesSideChannel ==
    /\ \A d \in AdvisorySteps :
          /\ d.value = value
          /\ d.radio = radio
          /\ d.checked = checked
          /\ d.disabled = disabled
          /\ PromptFragments(d) = PromptFragments(DOM)
    /\ modal.show => modal.fragments = PromptFragments(WithoutAdvisory(DOM))

\* C17 witness: a preview of cinestill_800t with camera_003 while the
\* warning element lists the tungsten conflict of the pair.
C17_Witness ==
    /\ modal.show
    /\ value["assemble-film-stock"] = "cinestill_800t"
    /\ value["assemble-camera"] = "camera_003"
    /\ Len(advisory.warning) = 1
    /\ advisory.warning[1].severity = "warning"
    /\ ShownTextsOf("filmStock") =
          << ". " \o filmStockPhrases["cinestill_800t"] >>

\* The severities of the advisories of the rule classes for a pair, in the
\* order monochrome, slow, fast, tungsten.
RuleClassSeverities(filmStock, camera) ==
    (IF /\ filmStock \in {"ilford_hp5_400", "kodak_tmax_100"}
        /\ DescriptionMentionsColor(camera)
     THEN << "warning" >> ELSE <<>>)
    \o (IF /\ filmStock \in {"fuji_velvia_50", "kodak_tmax_100"}
           /\ camera \in {"camera_003", "camera_004"}
        THEN << "info" >> ELSE <<>>)
    \o (IF filmStock = "cinestill_800t" /\ camera \in {"camera_001", "camera_002"}
        THEN << "info" >> ELSE <<>>)
    \o (IF filmStock = "cinestill_800t" /\ camera \in {"camera_003", "camera_004"}
        THEN << "warning" >> ELSE <<>>)

Severities(conflicts) == [n \in 1..Len(conflicts) |-> conflicts[n].severity]

\* C18: for every pair of the 10 film stocks and the 10 cameras,
\* getFilmCameraConflicts returns exactly the advisories of the rule
\* classes, the empty list for every pair outside them, and the warning
\* element of a selected pair lists them.
C18_ConflictsOfRuleClasses ==
    /\ Cardinality(FilmStockIds) = 10
    /\ Cardinality(CameraIds) = 10
    /\ \A filmStock \in FilmStockIds, camera \in CameraIds :
          Severities(getFilmCameraConflicts(filmStock, camera))
              = RuleClassSeverities(filmStock, camera)
    /\ (value["assemble-film-stock"] # "all" /\ value["assemble-camera"] # "all") =>
          Severities(advisory.warning)
              = RuleClassSeverities(value["assemble-film-stock"],
                                    value["assemble-camera"])

\* C18 witness: the slow monochrome stock kodak_tmax_100 selected with
\* camera_004 has the one info record of the slow class on display.
C18_Witness ==
    /\ value["assemble-film-stock"] = "kodak_tmax_100"
    /\ value["assemble-camera"] = "camera_004"
    /\ Severities(advisory.warning) = << "info" >>
    /\ advisory.warning[1].type = "speed_lighting_mismatch"

\* Array.prototype.includes
InArray(array, element) == \E n \in 1..Len(array) : array[n] = element

\* The suggestion element a change leaves for the compatible values
\* `compatible` of the other field, whose value is `current`: none when
\* `current` is among them or when there are none.
SuggestionFor(type, compatible, current) ==
    IF InArray(compatible, current) \/ compatible = <<>> THEN <<>>
    ELSE << [type |-> type, suggestions |-> compatible] >>

\* C19: after a change of the film stock no suggestion is on display when
\* the camera is among the cameras compatible with the stock, and these
\* cameras are suggested otherwise; after a change of the camera likewise
\* with the film stocks compatible with the camera.
C19_SuggestionUnlessCompatible ==
    [][/\ (\E v \in FilmStockChoices : SelectFilmStock(v)) =>
             advisory'.suggestion =
                 SuggestionFor("camera",
                               getCompatibleCameras(value'["assemble-film-stock"]),
                               value'["assemble-camera"])
       /\ (\E c \in CameraChoices : SelectCamera(c)) =>
             advisory'.suggestion =
                 SuggestionFor("film",
                               getCompatibleFilmStocks(value'["assemble-camera"]),
                               value'["assemble-film-stock"])]_vars

\* C19 witness: the film stock is 'all' and the cameras compatible with
\* the stock selected before, fuji_velvia_50, are still suggested.
C19_Witness ==
    /\ value["assemble-film-stock"] = "all"
    /\ value["assemble-camera"] = "camera_003"
    /\ advisory.suggestion =
          << [type |-> "camera",
              suggestions |-> getCompatibleCameras("fuji_velvia_50")] >>

(***************************************************************************)
(* loadTennerData over datasets: new_tenner_options.json as an array of    *)
(* rows, the header row first, each row an object keyed 'Unnamed: j'.      *)
(***************************************************************************)

\* `Unnamed: ${j}`
HeaderKey(j) == "Unnamed: " \o NumberToString(j)

HeaderKeys == {HeaderKey(j) : j \in TennerNumbers}

\* this.tennerData = null of the constructor.
NullTennerData == [null |-> TRUE]

\* fetch rejected, response not ok, or response.json() rejected.
LoadFails(response) == ~response.fetched \/ ~response.ok \/ ~response.parsed

\* A mutant of loadTennerData: a failed load leaves this.tennerData as the
\* constructor set it.
loadTennerDataNoFallback(response) ==
    IF LoadFails(response) THEN NullTennerData ELSE LoadedTennerData

\* loadTennerData on a response: a rejected fetch, a response that is not
\* ok, or a body that is not JSON, gives the empty store; else every row
\* after the first is pushed to each of T1..T32, a missing or empty cell as
\* ''.
loadTennerData(response) ==
    IF LoadFails(response) THEN EmptyTennerData
    ELSE LET jsonData == response.jsonData
         IN  IF Len(jsonData) <= 1 THEN [categories |-> <<>>]
             ELSE [categories |->
                     [tennerKey \in TennerKeys |->
                        [i \in 1..(Len(jsonData) - 1) |->
                           LET optionRow == jsonData[i + 1]
                               headerKey == HeaderKey(TennerNumberOf(tennerKey))
                           IN  [option_index |-> i - 1,
                                descriptor |->
                                    IF headerKey \in DOMAIN optionRow
                                    THEN optionRow[headerKey] ELSE "",
                                id |-> OptionId(tennerKey, i - 1)]]]]

\* The datasets loaded: up to MaxOptionRows option rows, every cell filled
\* but for one row whose T2 cell is missing or empty.
MaxOptionRows == 11

HeaderRow == [h \in HeaderKeys |-> h]

FilledRow(i) == [h \in HeaderKeys |-> "cell " \o NumberToString(i - 1)]

RowKinds == {"filled", "missing", "empty"}

Row(kind, i) ==
    IF kind = "missing"
    THEN [h \in HeaderKeys \ {HeaderKey(2)} |-> FilledRow(i)[h]]
    ELSE IF kind = "empty"
    THEN [FilledRow(i) EXCEPT ![HeaderKey(2)] = ""]
    ELSE FilledRow(i)

Dataset(rows, special, kind) ==
    << HeaderRow >>
        \o [i \in 1..rows |-> IF i = special THEN Row(kind, i) ELSE FilledRow(i)]

\* The dataset whose cells are the descriptors of LoadedTennerData.
DescriptorDataset ==
    << HeaderRow >>
        \o [i \in 1..NumOptions |->
               [h \in HeaderKeys |->
                   Descriptor(CHOOSE k \in TennerKeys :
                                  HeaderKey(TennerNumberOf(k)) = h, i - 1)]]

Datasets ==
    {Dataset(rows, special, kind) :
        rows \in 0..MaxOptionRows, special \in 1..2, kind \in RowKinds}
    \cup {<<>>, DescriptorDataset}

OkResponse(jsonData) ==
    [fetched |-> TRUE, ok |-> TRUE, parsed |-> TRUE, jsonData |-> jsonData]

Responses ==
    {OkResponse(jsonData) : jsonData \in Datasets}
    \cup {[fetched |-> FALSE, ok |-> FALSE, parsed |-> FALSE, jsonData |-> <<>>],
          [fetched |-> TRUE, ok |-> FALSE, parsed |-> FALSE, jsonData |-> <<>>],
          [fetched |-> TRUE, ok |-> TRUE, parsed |-> FALSE, jsonData |-> <<>>]}

\* init() with each response: the page built after loadTennerData.
InitLoad ==
    /\ \E response \in Responses : Holds(InitialDOM(loadTennerData(response)))
    /\ remembered = NothingRemembered
    /\ initStep = "done"

NextLoad ==
    \/ \E t \in {"T1", "T2", ""} : SelectTenner(1, t)
    \/ \E t \in {"T2", ""} : SelectTenner(2, t)

SpecLoad == InitLoad /\ [][NextLoad]_vars

\* A source that is a header row and 10 option rows.
TenOptionRows(response) ==
    /\ ~LoadFails(response)
    /\ Len(response.jsonData) = NumOptions + 1

\* The store has, for each dimension present, exactly 10 options, the i-th
\* with option_index i and the derived id.
TenOptionsEach(data) ==
    \A tennerKey \in DOMAIN data.categories :
        /\ Len(data.categories[tennerKey]) = 10
        /\ \A i \in 0..9 :
              /\ data.categories[tennerKey][i + 1].option_index = i
              /\ data.categories[tennerKey][i + 1].id = OptionId(tennerKey, i)

\* C20: after loadTennerData every dimension of the store has exactly 10
\* options with option_index 0..9, the derived ids and '' for a missing or
\* empty cell; a source that is not a header row and 10 option rows gives
\* the empty store.
C20_TenOptionsOrEmpty ==
    /\ TenOptionsEach(tennerData)
    /\ \A response \in Responses :
          LET data == loadTennerData(response)
          IN  /\ TenOptionsEach(data)
              /\ ~TenOptionRows(response) => data = EmptyTennerData
              /\ TenOptionRows(response) =>
                    \A tennerKey \in DOMAIN data.categories, i \in 1..NumOptions :
                       LET optionRow == response.jsonData[i + 1]
                           headerKey == HeaderKey(TennerNumberOf(tennerKey))
                       IN  data.categories[tennerKey][i].descriptor =
                               IF headerKey \in DOMAIN optionRow
                               THEN optionRow[headerKey] ELSE ""

\* C20 witness: a header row and two option rows were loaded, T1 is
\* selected, and the store holds two options for it, the second cell of T2
\* stored as ''.
C20_Witness ==
    /\ value["tenner-1"] = "T1"
    /\ DOMAIN tennerData.categories = TennerKeys
    /\ Len(tennerData.categories["T1"]) = 2
    /\ tennerData.categories["T1"][2].id = "t1_01"
    /\ tennerData.categories["T2"][2].descriptor = ""
    /\ loadTennerData(OkResponse(DescriptorDataset)) = LoadedTennerData

(***************************************************************************)
(* init(): the viewer as constructed awaits loadTennerData, and sets up    *)
(* the listeners when it has resolved.                                     *)
(***************************************************************************)

\* The viewer as constructed: this.tennerData = null, init() awaiting the
\* load, no listener set up.  The form is held as the set-up leaves it;
\* nothing reads it before.
InitConstructed ==
    /\ Holds(InitialDOM(NullTennerData))
    /\ remembered = NothingRemembered
    /\ initStep = "loadTennerData"

\* loadTennerData resolves; init() goes on to set up the listeners.
LoadTennerDataResolves ==
    /\ initStep = "loadTennerData"
    /\ \E response \in Responses : Commit(InitialDOM(loadTennerData(response)))
    /\ initStep' = "done"
    /\ UNCHANGED remembered

NextInit ==
    \/ LoadTennerDataResolves
    \/ \E t \in {"T1", "T2", ""} : SelectTenner(1, t)
    \/ \E mode \in TennerModes : SelectTennerMode(mode)
    \/ PreviewPrompt
    \/ HidePromptPreviewModal

SpecInit == InitConstructed /\ [][NextInit]_vars

\* C21: once init() has passed the load the store is a categories map, the
\* empty one after a rejected fetch, a response that is not ok or a body
\* that is not JSON; until then no Tenner or preview handler has run.
C21_RegistryNeverUndefined ==
    /\ initStep = "done" => "categories" \in DOMAIN tennerData
    /\ \A response \in Responses :
          LoadFails(response) =>
              /\ loadTennerData(response) = EmptyTennerData
              /\ DOMAIN loadTennerData(response).categories = {}
    /\ initStep # "done" => Holds(InitialDOM(NullTennerData))

\* C21 witness: after a load that left the empty store, T1 was selected and
\* the prompt previewed.
C21_Witness ==
    /\ initStep = "done"
    /\ tennerData = EmptyTennerData
    /\ value["tenner-1"] = "T1"
    /\ specificOptions[1] = <<>>
    /\ modal.show

(***************************************************************************)
(* The prompt statistics (checked under SpecOutputFields).                 *)
(***************************************************************************)

\* The number of whitespace-delimited tokens of a text: the positions that
\* end one, a character that is no blank followed by a blank or by the end.
TokenCount(text) ==
    Cardinality({n \in 1..Len(text) :
                    /\ SubSeq(text, n, n) # " "
                    /\ n = Len(text) \/ SubSeq(text, n + 1, n + 1) = " "})

\* C22: the statistics shown with a prompt are the number of its non-empty
\* whitespace-delimited tokens, its length, and ceil(length / 4), that is
\* the one number of tokens with 4 * (tokens - 1) < length <= 4 * tokens.
C22_PromptStatistics ==
    modal.show =>
        LET characters == Len(modal.text)
        IN  /\ modal.wordCount =
                  "Words: " \o NumberToString(TokenCount(modal.text))
            /\ modal.charCount = "Characters: " \o NumberToString(characters)
            /\ \E tokens \in (characters \div 4)..(characters \div 4 + 1) :
                  /\ modal.tokenEstimate = "~Tokens: " \o NumberToString(tokens)
                  /\ 4 * (tokens - 1) < characters
                  /\ characters <= 4 * tokens

\* C22 witness: the statistics of a prompt whose length is no multiple
\* of 4.
C22_Witness ==
    /\ modal.show
    /\ Len(modal.text) % 4 = 1
    /\ \E words \in 100..200 : modal.wordCount = "Words: " \o NumberToString(words)
    /\ modal.charCount = "Characters: " \o NumberToString(Len(modal.text))

(***************************************************************************)
(* The palette modes: standard, custom (an uploaded file), single colour.  *)
(***************************************************************************)

\* change of a palette-mode radio button: updatePaletteMode.
SelectPaletteMode(mode) ==
    /\ Idle
    /\ mode # radio["palette-mode"]
    /\ Do(updatePaletteMode([DOM EXCEPT !.radio["palette-mode"] = mode]))

\* change of assemble-color-palette: updateColorSwatches.
SelectColorPalette(v) ==
    /\ Idle
    /\ display["standard-palette-section"] = "block"
    /\ v # value["assemble-color-palette"]
    /\ Do(updateColorSwatches(SetValue(DOM, "assemble-color-palette", v)))

\* change of assemble-color-single (its listener does nothing).
SelectSingleColor(v) ==
    /\ Idle
    /\ display["single-color-section"] = "block"
    /\ v # value["assemble-color-single"]
    /\ Do(SetValue(DOM, "assemble-color-single", v))

\* change of custom-palette-file, with the file read.
UploadCustomPalette(file) ==
    /\ Idle
    /\ display["custom-palette-section"] = "block"
    /\ Do(handleCustomPaletteUpload(DOM, file))

PaletteFiles ==
    { [kind |-> "json", wellFormed |-> TRUE,
       names |-> << "Sky Blue", "Moss Green" >>],
      [kind |-> "json", wellFormed |-> FALSE, names |-> <<>>],
      [kind |-> "txt", wellFormed |-> TRUE, names |-> << "#112233", "#445566" >>],
      [kind |-> "pdf", wellFormed |-> TRUE, names |-> <<>>] }

NextPalette ==
    \/ \E mode \in {"standard", "custom", "single"} : SelectPaletteMode(mode)
    \/ \E v \in {"anamalia_late_summer", "classic_anamalia"} : SelectColorPalette(v)
    \/ \E v \in {"all", "ochre", "soft-pink"} : SelectSingleColor(v)
    \/ \E file \in PaletteFiles : UploadCustomPalette(file)
    \/ PreviewPrompt
    \/ HidePromptPreviewModal

SpecPalette == Init /\ [][NextPalette]_vars

\* The palette fragment that lists the given colour names.
PaletteTexts(names) ==
    IF names = <<>> THEN <<>>
    ELSE << " with " \o Join(names, ", ") \o " color palette" >>

\* C23: in custom mode, once an uploaded palette is displayed, the palette
\* fragment of the prompt lists its colours; in standard mode the fragment
\* lists the colours of the selected palette, in single mode the one
\* colour selected.
C23_PaletteOfActiveMode ==
    modal.show =>
        /\ (/\ radio["palette-mode"] = "custom"
            /\ display["custom-palette-preview"] = "block") =>
              ShownTextsOf("palette") =
                  << " with " \o textContent["custom-color-swatches"]
                         \o " color palette" >>
        /\ radio["palette-mode"] = "standard" =>
              ShownTextsOf("palette") = PaletteTexts(getStandardPaletteColors(DOM))
        /\ radio["palette-mode"] = "single" =>
              ShownTextsOf("palette") = PaletteTexts(getSingleColor(DOM))

\* C23 witness: custom mode, the uploaded JSON palette on display, and a
\* prompt without a palette fragment.
C23_Witness ==
    /\ modal.show
    /\ radio["palette-mode"] = "custom"
    /\ display["custom-palette-preview"] = "block"
    /\ textContent["custom-color-swatches"] = "Sky Blue, Moss Green"
    /\ ShownTextsOf("palette") = <<>>

(***************************************************************************)
(* The camera sentence of the prompt, for each camera.                     *)
(***************************************************************************)

NextCameraPreview ==
    \/ \E c \in CameraChoices : SelectCamera(c)
    \/ PreviewPrompt
    \/ HidePromptPreviewModal

SpecCameraPreview == Init /\ [][NextCameraPreview]_vars

\* The characters of a string, one per element.
Chars(text) == [n \in 1..Len(text) |-> SubSeq(text, n, n)]

\* The camera sentence of a camera fragment: the text after '. '.
CameraSentence(fragments) == SubSeq(fragments[1].text, 3, Len(fragments[1].text))

\* The sentence has no '{HEIGHT}' token, gives the canonical height of the
\* camera as '1 meter' or '<h> meters', and is the description of
\* getCameraDescriptions.
SubstitutedAsDescribed(camera, sentence) ==
    /\ ~Includes(Chars(sentence), Chars("{HEIGHT}"))
    /\ IF cameraHeightMapping[camera] = "1.0"
       THEN Includes(Chars(sentence), Chars("tripod height 1 meter,"))
       ELSE Includes(Chars(sentence),
                     Chars("tripod height " \o cameraHeightMapping[camera]
                               \o " meters,"))
    /\ Chars(sentence) = getCameraDescriptions[camera]

\* C24: for every camera of the dictionary the camera fragment has no
\* '{HEIGHT}' token, reads 'tripod height 1 meter' for the canonical height
\* 1.0 and 'tripod height <h> meters' otherwise, and is the static
\* description of the camera; so is the camera fragment on display.
C24_HeightSubstituted ==
    /\ \A camera \in DOMAIN cameraDescriptions :
          LET fragments == CameraFragment(SetValue(DOM, "assemble-camera", camera))
          IN  /\ Len(fragments) = 1
              /\ SubstitutedAsDescribed(camera, CameraSentence(fragments))
    /\ (modal.show /\ value["assemble-camera"] \in DOMAIN cameraDescriptions) =>
          /\ Len(ShownTextsOf("camera")) = 1
          /\ SubstitutedAsDescribed(
                 value["assemble-camera"],
                 SubSeq(ShownTextsOf("camera")[1], 3,
                        Len(ShownTextsOf("camera")[1])))

\* C24 witness: the preview for camera_002 reads 'tripod height 0.75
\* meters'.
C24_Witness ==
    /\ modal.show
    /\ value["assemble-camera"] = "camera_002"
    /\ Len(ShownTextsOf("camera")) = 1
    /\ Includes(Chars(ShownTextsOf("camera")[1]),
                Chars("tripod height 0.75 meters, angled 5"))

(***************************************************************************)
(* The green-screen scene and the tape markings.                           *)
(***************************************************************************)

NextScene ==
    \/ \E v \in {"piazza_v2", "greenscreen_v1", "all"} : SelectScene(v)
    \/ \E text \in {"", "rooftop garden", "greenscreen_v1"} : TypeManualScene(text)
    \/ ToggleTapeMarkings
    \/ PreviewPrompt
    \/ HidePromptPreviewModal

SpecScene == Init /\ [][NextScene]_vars

\* The texts of the prompt on display.
ShownTexts == {modal.fragments[n].text : n \in 1..Len(modal.fragments)}

\* C25: the green-screen backdrop fragment is in the prompt exactly when
\* the scene is greenscreen_v1, the tape-markings sentence exactly when the
\* scene is greenscreen_v1 and the flag is set; with any other scene the
\* prompt is the same whether the flag is set or not.
C25_GreenScreenAndTape ==
    modal.show =>
        LET greenScreen == SceneOf(DOM) = "greenscreen_v1"
        IN  /\ GreenScreenText \in ShownTexts <=> greenScreen
            /\ TapeMarkingsText \in ShownTexts <=>
                  (greenScreen /\ checked["assemble-tape-markings"])
            /\ ~greenScreen =>
                  modal.fragments =
                      PromptFragments(
                          [DOM EXCEPT !.checked["assemble-tape-markings"] = FALSE])

\* C25 witness: the flag was set for greenscreen_v1 and is still set with
\* piazza_v2 selected; the prompt has the plain scene fragment only.
C25_Witness ==
    /\ modal.show
    /\ checked["assemble-tape-markings"]
    /\ value["assemble-scene"] = "piazza_v2"
    /\ value["assemble-scene-manual"] = ""
    /\ ShownTextsOf("scene") = << " at a piazza v2" >>

(***************************************************************************)
(* The chunk table (checked under SpecChunk).                              *)
(***************************************************************************)

\* C26: the chunk table has 20 chunks of 1 to 3 dimension ids each, no two
\* with the same dimension set; so a selection matches at most one chunk,
\* and the id on display is the id of that chunk wherever the table
\* declares it.
C26_DistinctChunkSets ==
    /\ Len(loadChunkMappings) = 20
    /\ \A k \in 1..Len(loadChunkMappings) :
          /\ Len(loadChunkMappings[k].tennerSet) \in 1..3
          /\ Cardinality(Elements(loadChunkMappings[k].tennerSet))
                = Len(loadChunkMappings[k].tennerSet)
          /\ \A m \in 1..Len(loadChunkMappings) :
                k # m => /\ Elements(loadChunkMappings[k].tennerSet)
                               # Elements(loadChunkMappings[m].tennerSet)
                         /\ loadChunkMappings[k].id # loadChunkMappings[m].id
    /\ display["chunk-id-display"] = "block" =>
          /\ Cardinality(ChunksOf(SelectedTenners(DOM))) <= 1
          /\ \A k \in ChunksOf(SelectedTenners(DOM)) :
                textContent["chunk-id-value"] = loadChunkMappings[k].id

\* C26 witness: T5, T2, T1 selected in this order, classified as CHUNK14,
\* the one chunk with this set.
C26_Witness ==
    /\ display["chunk-id-display"] = "block"
    /\ SelectedTenners(DOM) = << "T5", "T2", "T1" >>
    /\ ChunksOf(SelectedTenners(DOM)) = {14}
    /\ textContent["chunk-id-value"] = "CHUNK14"

(***************************************************************************)
(* The three Tenner slots: selections of enabled options, mode switches    *)
(* and resets.                                                             *)
(***************************************************************************)

\* Every dropdown offers the same dimensions here.
SlotTenners == {"T1", "T2", "T3"}

NextSlots ==
    \/ \E i \in Slots : \E t \in SlotTenners \cup {""} : SelectTenner(i, t)
    \/ \E m \in TennerModes : SelectTennerMode(m)
    \/ ResetToDefaults

SpecSlots == Init /\ [][NextSlots]_vars

\* C27: the dimensions held by the three slots are pairwise distinct, so
\* the selected dimensions are at most 3 and none is counted twice.
C27_SlotsPairwiseDistinct ==
    /\ \A i \in Slots : \A j \in Slots :
          (i # j /\ value[TennerSelectId(i)] \notin {"", "none"})
              => value[TennerSelectId(i)] # value[TennerSelectId(j)]
    /\ Len(SelectedTenners(DOM)) <= 3
    /\ Cardinality(Elements(SelectedTenners(DOM))) = Len(SelectedTenners(DOM))

\* C27 witness: the three slots hold three dimensions in batch mode, and
\* no dropdown offers a dimension held by another.
C27_Witness ==
    /\ radio["tenner-mode"] = "batch"
    /\ Elements(SelectedTenners(DOM)) = SlotTenners
    /\ \A i \in Slots :
          optionDisabled[i] = SlotTenners \ {value[TennerSelectId(i)]}

(***************************************************************************)
(* The status line and the specific options after a change of a Tenner     *)
(* dropdown (checked under SpecTenner).                                    *)
(***************************************************************************)

\* 'Single mode: N specific option(s) selected'
SpecificStatusText(n) ==
    "Single mode: " \o NumberToString(n) \o " specific option(s) selected"

\* C28: after the handlers of a change of a Tenner dropdown in single mode,
\* the status line reports N specific options only if exactly N slots hold
\* an option, and every option still held is one of the dimension selected
\* in its slot.
C28_StatusAfterTennerChange ==
    [][((\E i \in Slots : \E t \in TennerChoices(i) \cup {""} : SelectTenner(i, t))
            /\ radio'["tenner-mode"] = "single") =>
          /\ \A n \in 1..3 :
                textContent'["tenner-status"] = SpecificStatusText(n) =>
                    Cardinality({i \in Slots :
                        value'[SpecificSelectId(i)] # ""}) = n
          /\ \A i \in Slots :
                value'[SpecificSelectId(i)] # "" =>
                    MatchSpecific(value'[SpecificSelectId(i)]).tennerKey
                        = value'[TennerSelectId(i)]]_vars

\* C28 witness: in single mode T1 and T2 are selected, the status line
\* reports one specific option, and no slot holds an option.
C28_Witness ==
    /\ radio["tenner-mode"] = "single"
    /\ value["tenner-1"] = "T1"
    /\ value["tenner-2"] = "T2"
    /\ textContent["tenner-status"] = SpecificStatusText(1)
    /\ \A i \in Slots : value[SpecificSelectId(i)] = ""

\* C29: in single mode a change of the dimension of one slot leaves the
\* dimension and the specific option of the other two slots unchanged.
C29_OtherSlotsUnchanged ==
    [][\A i \in Slots : \A t \in TennerChoices(i) \cup {""} :
          (SelectTenner(i, t) /\ radio["tenner-mode"] = "single") =>
              \A j \in Slots \ {i} :
                  /\ value'[TennerSelectId(j)] = value[TennerSelectId(j)]
                  /\ value'[SpecificSelectId(j)] = value[SpecificSelectId(j)]]_vars

\* C29 witness: in single mode T1 is selected in the first slot and T4 in
\* the third, both lists of options are filled, the status line still
\* counts the option chosen before the later of the two changes, and no
\* slot holds an option.
C29_Witness ==
    /\ radio["tenner-mode"] = "single"
    /\ value["tenner-1"] = "T1"
    /\ value["tenner-2"] = ""
    /\ value["tenner-3"] = "T4"
    /\ Len(specificOptions[1]) = NumOptions
    /\ Len(specificOptions[3]) = NumOptions
    /\ textContent["tenner-status"] = SpecificStatusText(1)
    /\ \A i \in Slots : value[SpecificSelectId(i)] = ""

(***************************************************************************)
(* The compatibility warning after changes of the film stock and of the    *)
(* camera (checked under SpecAdvisory).                                    *)
(***************************************************************************)

\* C30: a compatibility warning is on display iff the current pair of film
\* stock and camera has a conflict, and the records on display are those
\* of the current pair.
C30_WarningOfCurrentPair ==
    /\ advisory.warning # <<>> <=>
          getFilmCameraConflicts(value["assemble-film-stock"],
                                 value["assemble-camera"]) # <<>>
    /\ advisory.warning =
          getFilmCameraConflicts(value["assemble-film-stock"],
                                 value["assemble-camera"])

\* C30 witness: the film stock is 'all', the camera is camera_001, a pair
\* without conflicts, and the warning of an earlier pair is on display.
C30_Witness ==
    /\ value["assemble-film-stock"] = "all"
    /\ value["assemble-camera"] = "camera_001"
    /\ getFilmCameraConflicts("all", "camera_001") = <<>>
    /\ advisory.warning # <<>>

====
